---------------------------- MODULE Spec2Model ----------------------------
(***************************************************************************)
(* Model of the GyanMitra NCERT doubt-solver query pipeline:               *)
(*   scripts/api_server.py                      (request surface,          *)
(*                                               citation formatter)       *)
(*   opea_microservices/orchestration/rag_orchestrator.py (pipeline)       *)
(*   opea_microservices/llm/mistral_service.py  (context assembler,        *)
(*                                               prompt builder, adapter)  *)
(*   opea_microservices/retrieval/vector_store.py (retrieval gateway)      *)
(*                                                                         *)
(* Representation.  A Python str is a sequence of code points; one code    *)
(* point is a one-character TLA+ string, or the name "uXXXX" of a          *)
(* Devanagari code point.  len() is Len, s[:k] is Take(s, k), + is \o.     *)
(* A distance is an integer number of thousandths (cosine distance in      *)
(* [0, 2] is 0 .. 2000); a relevance is an integer number of thousandths.  *)
(***************************************************************************)
EXTENDS Integers, Sequences, FiniteSets, TLC

VARIABLES
    pc,               \* position of the running call
    \* OPEAMistralService (generate_answer, stream_answer, build_mistral_prompt)
    entry,            \* the entry point serving the call
    query,            \* the query argument
    grade_arg,        \* the grade argument
    subject_arg,      \* the subject argument
    language,         \* the language argument
    hindi_terms,      \* the hindi_terms argument (a glossary; <<>> is None)
    context_chunks,   \* the context_chunks argument
    i,                \* build_mistral_prompt: chunks the loop has taken so far
    context_text,     \* build_mistral_prompt: the context blob
    total_chars,      \* build_mistral_prompt: running length of the blob
    prompt,           \* the prompt envelope handed to the model
    model_request,    \* the arguments of the call of self.model
    model_response,   \* what self.model returned
    result,           \* what the entry point returned or yielded
    fault,            \* the failure met while serving the call, if any
    \* OPEARAGOrchestrator.process_query
    response_language,
    search_query,
    query_embedding,
    where_filter,     \* the filter OPEAVectorStore.search sent to the store
    retrieved_chunks,
    answer,
    \* api_server.process_query
    payload,          \* the JSON body of the POST, before validation
    request,          \* the QueryRequest
    adjusted_top_k,
    citations,        \* formatted_citations
    source_chunks,
    responses,        \* the HTTP responses sent for the request
    \* the process
    rag_orchestrator, \* api_server's global handle of the orchestrator
    vector_store,     \* api_server's global handle of the vector store
    lifespan,         \* the application: "created", "started" (startup_event
                      \* has returned) or "startup failed" (it has raised)
    parked,           \* the invocations of the query handler in flight that
                      \* are not running now: the locals of each
    llm_service,      \* the orchestrator's self.llm_service
    collection,       \* the store's chunks, each at its distance from the
                      \* query embedding of the search
    rebuild,          \* the run of the rebuild script: its position and its
                      \* locals all_chunks, embedding_model and i
    calls             \* invocations of each external collaborator

promptVars == <<language, context_chunks, i, context_text, total_chars>>

adapterVars ==
    <<entry, query, grade_arg, subject_arg, hindi_terms, prompt, model_request,
      model_response, result, fault>>

orcVars ==
    <<response_language, search_query, query_embedding, where_filter,
      retrieved_chunks, answer>>

apiVars ==
    <<payload, request, adjusted_top_k, citations, source_chunks, responses>>

serviceVars ==
    <<rag_orchestrator, vector_store, lifespan, llm_service, collection, parked,
      rebuild>>

vars == <<pc, promptVars, adapterVars, orcVars, apiVars, serviceVars, calls>>

\* the value of a local that is not (or not yet) bound
None == "None"

-----------------------------------------------------------------------------
(* Bounds of the model *)

\* longest chunk list handed to build_mistral_prompt in SpecPrompt
MaxChunks == 6

\* longest retrieval result handed to the formatters in SpecFormat
MaxRetrieved == 3

-----------------------------------------------------------------------------
(* Values of the state before the code that binds them has run *)

NoCalls == [embedding |-> 0, search |-> 0, generation |-> 0]

\* no run of the rebuild script has started
NotRunning ==
    [pc |-> "idle", all_chunks |-> <<>>, embedding_model |-> None, i |-> 0]

PromptIdle ==
    /\ language = None
    /\ context_chunks = <<>>
    /\ i = 0
    /\ context_text = <<>>
    /\ total_chars = 0

AdapterIdle ==
    /\ entry = None
    /\ query = <<>>
    /\ grade_arg = 0
    /\ subject_arg = None
    /\ hindi_terms = <<>>
    /\ prompt = None
    /\ model_request = None
    /\ model_response = None
    /\ result = None
    /\ fault = "none"

OrchestratorIdle ==
    /\ response_language = None
    /\ search_query = <<>>
    /\ query_embedding = None
    /\ where_filter = None
    /\ retrieved_chunks = <<>>
    /\ answer = <<>>

ApiIdle ==
    /\ payload = None
    /\ request = None
    /\ adjusted_top_k = 0
    /\ citations = <<>>
    /\ source_chunks = <<>>
    /\ responses = <<>>
    /\ calls = NoCalls

\* after startup_event: the orchestrator is built with use_mistral=True
ServicesUp ==
    /\ lifespan = "started"
    /\ vector_store = "OPEAVectorStore"
    /\ rag_orchestrator = "OPEARAGOrchestrator"
    /\ llm_service = "OPEAMistralService"

\* before startup_event, or after it has raised: the global handles are None,
\* but for the store's when it was the orchestrator's construction that raised
ServicesDown ==
    /\ rag_orchestrator = None
    /\ llm_service = None
    /\ \/ lifespan = "created" /\ vector_store = None
       \/ lifespan = "startup failed" /\ vector_store = None
       \/ lifespan = "startup failed" /\ vector_store = "OPEAVectorStore"

-----------------------------------------------------------------------------
(* Strings *)

Take(s, k) == SubSeq(s, 1, IF k < Len(s) THEN k ELSE Len(s))

\* the pattern the model's chunk texts are cut from: position j of every
\* text holds Pattern[((j - 1) % 7) + 1], so a shifted or shortened slice differs
Pattern == <<"a", "b", "c", "d", "e", "f", "g">>

MkText(n) == [j \in 1..n |-> Pattern[((j - 1) % 7) + 1]]

Digit(d) == <<"0", "1", "2", "3", "4", "5", "6", "7", "8", "9">>[d + 1]

\* str(n) for n >= 0
RECURSIVE Str(_)
Str(n) == IF n < 10 THEN <<Digit(n)>> ELSE Str(n \div 10) \o <<Digit(n % 10)>>

\* Lower that leaves the casing as it is
Lower_as_given(s) == s

\* str.lower() on the language names the model uses
Lower(s) ==
    CASE s = "Hindi"   -> "hindi"
      [] s = "HINDI"   -> "hindi"
      [] s = "hINDI"   -> "hindi"
      [] s = "English" -> "english"
      [] s = "ENGLISH" -> "english"
      [] s = "Hi"      -> "hi"
      [] OTHER         -> s

-----------------------------------------------------------------------------
(* Context assembler: OPEAMistralService.build_mistral_prompt, lines 72-93 *)

max_context_chars == 3500

\* the per-chunk ceiling, the literal 800 of line 83
max_chunk_chars == 800

TruncationMarker == <<".", ".", ".">>

is_hindi_query(lang) == Lower(lang) \in {"hindi", "hi"}

\* lines 83-84: chunk_text[:800] + "..." when longer than 800
TruncateChunk_nomarker(chunk_text) ==
    IF Len(chunk_text) > max_chunk_chars
    THEN Take(chunk_text, max_chunk_chars)
    ELSE chunk_text

TruncateChunk(chunk_text) ==
    IF Len(chunk_text) > max_chunk_chars
    THEN Take(chunk_text, max_chunk_chars) \o TruncationMarker
    ELSE chunk_text

\* line 87: the two labels, "Context {i}:\n" and its Hindi equivalent
ContextLabel(idx, hindi) ==
    IF hindi
    THEN <<"u0938", "u0902", "u0926", "u0930", "u094D", "u092D", " ">>
             \o Str(idx) \o <<":", "\n">>
    ELSE <<"C", "o", "n", "t", "e", "x", "t", " ">> \o Str(idx) \o <<":", "\n">>

\* line 87: chunk_content
ChunkContent(idx, chunk, hindi) ==
    ContextLabel(idx, hindi) \o TruncateChunk(chunk.text) \o <<"\n", "\n">>

\* line 89: the overflow test
Overflows_before_adding(total, chunk_content) == total > max_context_chars

Overflows(total, chunk_content) ==
    total + Len(chunk_content) > max_context_chars

\* line 90: break leaves the loop; AfterOverflow_continue is a continue
AfterOverflow_continue == "build"

AfterOverflow == "built"

\* one iteration of the loop of lines 79-93.  A chunk without a 'text' key
\* makes line 80 raise KeyError; build_mistral_prompt is called outside any
\* try (lines 165 and 238), so the exception leaves the entry point.
BuildStep ==
    /\ pc = "build"
    /\ i < Len(context_chunks)
    /\ LET idx   == i + 1
           chunk == context_chunks[idx]
       IN  IF "text" \notin DOMAIN chunk
           THEN /\ fault' = "prompt construction"
                /\ pc' = "raised"
                /\ UNCHANGED <<i, context_text, total_chars>>
           ELSE LET chunk_content ==
                        ChunkContent(idx, chunk, is_hindi_query(language))
                IN  /\ i' = idx
                    /\ UNCHANGED fault
                    /\ IF Overflows(total_chars, chunk_content)
                       THEN /\ pc' = AfterOverflow
                            /\ UNCHANGED <<context_text, total_chars>>
                       ELSE /\ pc' = "build"
                            /\ context_text' = context_text \o chunk_content
                            /\ total_chars' = total_chars + Len(chunk_content)
    /\ UNCHANGED <<language, context_chunks>>
    /\ UNCHANGED <<entry, query, grade_arg, subject_arg, hindi_terms, prompt,
                   model_request, model_response, result>>
    /\ UNCHANGED <<orcVars, apiVars, serviceVars, calls>>

\* the loop of lines 79-93 runs out of chunks
BuildExhausted ==
    /\ pc = "build"
    /\ i = Len(context_chunks)
    /\ pc' = "built"
    /\ UNCHANGED <<promptVars, adapterVars, orcVars, apiVars, serviceVars, calls>>

-----------------------------------------------------------------------------
(* Citation formatter: api_server.format_citations, format_source_chunks *)

\* the characters str.strip() removes, among those the model's texts hold
Whitespace == {" ", "\n", "\t"}

RECURSIVE LStrip(_)
LStrip(s) ==
    IF s # <<>> /\ Head(s) \in Whitespace THEN LStrip(Tail(s)) ELSE s

RECURSIVE RStrip(_)
RStrip(s) ==
    IF s # <<>> /\ s[Len(s)] \in Whitespace
    THEN RStrip(SubSeq(s, 1, Len(s) - 1))
    ELSE s

\* str.strip()
Strip_right_only(s) == RStrip(s)

Strip(s) == LStrip(RStrip(s))

\* the excerpt length, the literal 150 of lines 134-135
max_excerpt_chars == 150

\* lines 133-136: full_text[:150].strip(), then "..." when len(full_text) > 150
Excerpt(full_text) ==
    Strip(Take(full_text, max_excerpt_chars))
      \o (IF Len(full_text) > max_excerpt_chars THEN <<".", ".", ".">> ELSE <<>>)

\* largest cosine distance: the collection is created with hnsw:space cosine
MaxDistance == 2000

\* lines 139 and 182: round(1 - distance, 3).  Distances are thousandths, and
\* on that grid the rounded float is the exact thousandth 1000 - distance.
Relevance_clamped(distance) ==
    IF 1000 - distance < 0 THEN 0 ELSE 1000 - distance

Relevance(distance) == 1000 - distance

\* line 141: subject.replace('_', ' ').title(), on the subjects the model uses
SubjectTitle(subj) ==
    CASE subj = "science"        -> "Science"
      [] subj = "mathematics"    -> "Mathematics"
      [] subj = "social_science" -> "Social Science"
      [] OTHER                   -> subj

\* lines 126-154 with the chapter taken from the section whenever the
\* chapter is 'Unknown'
Citation_section_for_unknown(idx, chunk, grade, subj) ==
    LET metadata == chunk.metadata
        section  == metadata.section
        chapter  == IF metadata.chapter = "Unknown"
                    THEN section
                    ELSE metadata.chapter
    IN  [id        |-> idx + 1,
         source    |-> <<"NCERT ", SubjectTitle(subj), " Grade ", grade>>,
         chapter   |-> chapter,
         section   |-> section,
         page      |-> metadata.page_num,
         excerpt   |-> Excerpt(chunk.text),
         relevance |-> Relevance(chunk.distance),
         chunk_id  |-> chunk.chunk_id]

\* lines 126-154: the citation of the chunk at 0-based position idx
Citation(idx, chunk, grade, subj) ==
    LET metadata == chunk.metadata
        section  == metadata.section
        chapter  == IF metadata.chapter = "Unknown" /\ section # "General"
                    THEN section
                    ELSE metadata.chapter
    IN  [id        |-> idx + 1,
         source    |-> <<"NCERT ", SubjectTitle(subj), " Grade ", grade>>,
         chapter   |-> chapter,
         section   |-> section,
         page      |-> metadata.page_num,
         excerpt   |-> Excerpt(chunk.text),
         relevance |-> Relevance(chunk.distance),
         chunk_id  |-> chunk.chunk_id]

\* list.sort(key=relevance, reverse=True): a stable sort, so elements of
\* equal relevance keep the order they had.  x goes after every element whose
\* relevance is at least its own.
RECURSIVE InsertByRelevance(_, _)
InsertByRelevance(x, sorted) ==
    IF sorted = <<>> THEN <<x>>
    ELSE IF Head(sorted).relevance >= x.relevance
         THEN <<Head(sorted)>> \o InsertByRelevance(x, Tail(sorted))
         ELSE <<x>> \o sorted

RECURSIVE InsertByRelevanceUnstable(_, _)
InsertByRelevanceUnstable(x, sorted) ==
    IF sorted = <<>> THEN <<x>>
    ELSE IF Head(sorted).relevance > x.relevance
         THEN <<Head(sorted)>> \o InsertByRelevanceUnstable(x, Tail(sorted))
         ELSE <<x>> \o sorted

RECURSIVE SortByRelevance_ties_reversed(_)
SortByRelevance_ties_reversed(s) ==
    IF s = <<>> THEN <<>>
    ELSE InsertByRelevanceUnstable(
             s[Len(s)], SortByRelevance_ties_reversed(SubSeq(s, 1, Len(s) - 1)))

RECURSIVE SortByRelevance_ascending(_)
SortByRelevance_ascending(s) ==
    IF s = <<>> THEN <<>>
    ELSE LET rest == SortByRelevance_ascending(SubSeq(s, 1, Len(s) - 1))
             x    == s[Len(s)]
             less == {k \in 1..Len(rest) : rest[k].relevance <= x.relevance}
             at   == Cardinality(less)
         IN  SubSeq(rest, 1, at) \o <<x>> \o SubSeq(rest, at + 1, Len(rest))

RECURSIVE SortByRelevance(_)
SortByRelevance(s) ==
    IF s = <<>> THEN <<>>
    ELSE InsertByRelevance(s[Len(s)], SortByRelevance(SubSeq(s, 1, Len(s) - 1)))

\* lines 157-158: ranks renumbered 1..n after the sort
Renumber(cs) == [k \in 1..Len(cs) |-> [cs[k] EXCEPT !.id = k]]

\* lines 156-158 of format_citations
SortCitations_ties_reversed(cs) == Renumber(SortByRelevance_ties_reversed(cs))

SortCitations(cs) == Renumber(SortByRelevance(cs))

\* format_citations, lines 121-160
format_citations(chunks, grade, subj) ==
    SortCitations([k \in 1..Len(chunks) |-> Citation(k - 1, chunks[k], grade, subj)])

\* lines 166-184: the full-chunk view of one chunk
SourceChunk(chunk) ==
    [chunk_id  |-> chunk.chunk_id,
     full_text |-> chunk.text,
     metadata  |-> [page    |-> chunk.metadata.page_num,
                    chapter |-> chunk.metadata.chapter,
                    section |-> chunk.metadata.section,
                    grade   |-> chunk.metadata.grade,
                    subject |-> chunk.metadata.subject],
     relevance |-> Relevance(chunk.distance)]

\* format_source_chunks, lines 162-187
format_source_chunks_ascending(chunks) ==
    SortByRelevance_ascending([k \in 1..Len(chunks) |-> SourceChunk(chunks[k])])

format_source_chunks(chunks) ==
    SortByRelevance([k \in 1..Len(chunks) |-> SourceChunk(chunks[k])])

\* api_server.process_query, lines 332-336
ApiFormatCitations ==
    /\ pc = "api_format_citations"
    /\ citations' = format_citations(retrieved_chunks, request.grade, request.subject)
    /\ pc' = "api_format_source_chunks"
    /\ UNCHANGED <<payload, request, adjusted_top_k, source_chunks, responses>>
    /\ UNCHANGED <<promptVars, adapterVars, orcVars, serviceVars, calls>>

\* api_server.process_query, line 338
ApiFormatSourceChunks ==
    /\ pc = "api_format_source_chunks"
    /\ source_chunks' = format_source_chunks(retrieved_chunks)
    /\ pc' = "api_respond"
    /\ UNCHANGED <<payload, request, adjusted_top_k, citations, responses>>
    /\ UNCHANGED <<promptVars, adapterVars, orcVars, serviceVars, calls>>

-----------------------------------------------------------------------------
(* Query canonicalizer: OPEARAGOrchestrator._translate_hindi_query *)

\* the ASCII characters of the model's texts
AsciiChars ==
    { "0", "1", "2", "3", "4", "5", "6", "7", "8", "9", "a", "b", "c",
      "d", "e", "f", "g", "h", "i", "j", "k", "l", "m", "n", "o", "p",
      "q", "r", "s", "t", "u", "v", "w", "x", "y", "z", "A", "B", "C",
      "D", "E", "F", "G", "H", "I", "J", "K", "L", "M", "N", "O", "P",
      "Q", "R", "S", "T", "U", "V", "W", "X", "Y", "Z", "!", "#",
      "$", "%", "&", "'", "(", ")", "*", "+", ",", "-", ".", "/", ":",
      ";", "<", "=", ">", "?", "@", "[", "]", "^", "_", "{",
      "|", "}", "~", " ", "\t", "\n" }

\* str.isascii()
IsAscii(s) == \A k \in 1..Len(s) : s[k] \in AsciiChars

\* the least element of a non-empty set of positions
MinOf(S) == CHOOSE x \in S : \A y \in S : x <= y

\* s has the literal w at position p
HasAt(s, p, w) == p + Len(w) - 1 <= Len(s) /\ SubSeq(s, p, p + Len(w) - 1) = w

\* old in s
Contains(s, old) == \E k \in 1..(Len(s) - Len(old) + 1) : HasAt(s, k, old)

\* s.replace(old, new), old not empty: leftmost occurrences, not overlapping
RECURSIVE Replace(_, _, _)
Replace(s, old, new) ==
    LET at == {k \in 1..(Len(s) - Len(old) + 1) : HasAt(s, k, old)}
    IN  IF at = {} THEN s
        ELSE LET k == MinOf(at)
             IN  SubSeq(s, 1, k - 1) \o new
                   \o Replace(SubSeq(s, k + Len(old), Len(s)), old, new)

\* _translate_hindi_query, lines 58-76: the mapping, in insertion order
hindi_to_english ==
    << <<<<"u092A", "u094D", "u0930", "u0915", "u093E", "u0936", " ", "u0938",
          "u0902", "u0936", "u094D", "u0932", "u0947", "u0937", "u0923">>,
        <<"p", "h", "o", "t", "o", "s", "y", "n", "t", "h", "e", "s", "i",
          "s">>>>,
       <<<<"u092A", "u094D", "u0930", "u0915", "u093E", "u0936">>,
        <<"l", "i", "g", "h", "t">>>>,
       <<<<"u0938", "u0902", "u0936", "u094D", "u0932", "u0947", "u0937",
          "u0923">>,
        <<"s", "y", "n", "t", "h", "e", "s", "i", "s">>>>,
       <<<<"u092A", "u094C", "u0927", "u0947">>,
        <<"p", "l", "a", "n", "t", "s">>>>,
       <<<<"u092A", "u0924", "u094D", "u0924", "u0947">>,
        <<"l", "e", "a", "v", "e", "s">>>>,
       <<<<"u0939", "u0930", "u093E">>,
        <<"g", "r", "e", "e", "n">>>>,
       <<<<"u092D", "u094B", "u091C", "u0928">>,
        <<"f", "o", "o", "d">>>>,
       <<<<"u0915", "u093E", "u0930", "u094D", "u092C", "u0928", " ", "u0921",
          "u093E", "u0907", "u0911", "u0915", "u094D", "u0938", "u093E",
          "u0907", "u0921">>,
        <<"c", "a", "r", "b", "o", "n", " ", "d", "i", "o", "x", "i", "d",
          "e">>>>,
       <<<<"u092A", "u093E", "u0928", "u0940">>,
        <<"w", "a", "t", "e", "r">>>>,
       <<<<"u0938", "u0942", "u0930", "u094D", "u092F", " ", "u0915", "u093E",
          " ", "u092A", "u094D", "u0930", "u0915", "u093E", "u0936">>,
        <<"s", "u", "n", "l", "i", "g", "h", "t">>>>,
       <<<<"u0911", "u0915", "u094D", "u0938", "u0940", "u091C", "u0928">>,
        <<"o", "x", "y", "g", "e", "n">>>>,
       <<<<"u0935", "u093E", "u092F", "u0941", "u092E", "u0902", "u0921",
          "u0932">>,
        <<"a", "t", "m", "o", "s", "p", "h", "e", "r", "e">>>>,
       <<<<"u092A", "u0930", "u093E", "u0935", "u0930", "u094D", "u0924",
          "u0928">>,
        <<"r", "e", "f", "l", "e", "c", "t", "i", "o", "n">>>>,
       <<<<"u091B", "u093E", "u092F", "u093E">>,
        <<"s", "h", "a", "d", "o", "w">>>>,
       <<<<"u092A", "u093E", "u0930", "u0926", "u0930", "u094D", "u0936",
          "u0940">>,
        <<"t", "r", "a", "n", "s", "p", "a", "r", "e", "n", "t">>>>,
       <<<<"u0905", "u092A", "u093E", "u0930", "u0926", "u0930", "u094D",
          "u0936", "u0940">>,
        <<"o", "p", "a", "q", "u", "e">>>>,
       <<<<"u0905", "u0930", "u094D", "u0927", "u092A", "u093E", "u0930",
          "u0926", "u0930", "u094D", "u0936", "u0940">>,
        <<"t", "r", "a", "n", "s", "l", "u", "c", "e", "n", "t">>>> >>


\* lines 78-81: the loop over the first k entries of the mapping; the test
\* looks in the original query, the replacement works on the translation
\* lines 78-81: the loop from entry k of the table on.  The test looks for
\* the term in the original query, the replacement is made in the
\* translation so far.
RECURSIVE TranslateFrom(_, _, _)
TranslateFrom(q, translated_query, k) ==
    IF k > Len(hindi_to_english) \/ translated_query = <<>>
    THEN translated_query
    ELSE LET hindi_term   == hindi_to_english[k][1]
             english_term == hindi_to_english[k][2]
         IN  TranslateFrom(q,
                           IF Contains(q, hindi_term)
                           THEN Replace(translated_query, hindi_term, english_term)
                           ELSE translated_query,
                           k + 1)

\* _translate_hindi_query, lines 56-83
translate_hindi_query(q) == TranslateFrom(q, q, 1)

\* SearchQuery with the query stripped of surrounding white space
SearchQuery_stripped(q) ==
    IF ~IsAscii(q) THEN translate_hindi_query(Strip(q)) ELSE Strip(q)

\* process_query, lines 147-150
SearchQuery(q) == IF ~IsAscii(q) THEN translate_hindi_query(q) ELSE q

-----------------------------------------------------------------------------
(* Retrieval gateway: OPEAVectorStore.search *)

\* an Optional[int] argument: <<>> is None, <<n>> is the integer n
NoInt == <<>>

SomeInt(n) == <<n>>

\* WhereConditions with the grade condition left out
WhereConditions_no_grade(grade, subj, lang) ==
    (IF subj \notin {None, ""} THEN <<[field |-> "subject", eq |-> subj]>> ELSE <<>>)
    \o (IF lang \notin {None, ""}
        THEN <<[field |-> "language",
                eq    |-> IF Lower(lang) = "hindi" THEN "Hindi"
                          ELSE IF Lower(lang) = "english" THEN "english"
                          ELSE lang]>>
        ELSE <<>>)

\* lines 69-85: where_conditions.  grade is an Optional[int]; subj and lang
\* are strings or None, and the empty string is falsy like None
WhereConditions(grade, subj, lang) ==
    (IF grade # NoInt THEN <<[field |-> "grade", eq |-> grade[1]]>> ELSE <<>>)
    \o (IF subj \notin {None, ""} THEN <<[field |-> "subject", eq |-> subj]>> ELSE <<>>)
    \o (IF lang \notin {None, ""}
        THEN <<[field |-> "language",
                eq    |-> IF Lower(lang) = "hindi" THEN "Hindi"
                          ELSE IF Lower(lang) = "english" THEN "english"
                          ELSE lang]>>
        ELSE <<>>)

\* WhereFilter that wraps the conditions in $and also when there are none
WhereFilter_always_and(where_conditions) == <<[and |-> where_conditions]>>

\* line 85: the where argument, an Optional: <<>> is None, <<f>> the filter f
WhereFilter(where_conditions) ==
    IF where_conditions # <<>> THEN <<[and |-> where_conditions]>> ELSE <<>>

\* the conditions the store reads in a where argument
Conditions(where) == IF where = <<>> THEN <<>> ELSE where[1].and

\* the store's side of collection.query: a chunk passes the $and filter
PassesFilter(chunk, conditions) ==
    \A k \in 1..Len(conditions) :
       chunk.metadata[conditions[k].field] = conditions[k].eq

\* the n nearest chunks of S in ascending distance; chunks at the same
\* distance come in either order
RECURSIVE NearestLists(_, _)
NearestLists(S, n) ==
    IF n = 0 \/ S = {} THEN {<<>>}
    ELSE LET nearest == {c \in S : \A d \in S : c.distance <= d.distance}
         IN  UNION {{<<c>> \o rest : rest \in NearestLists(S \ {c}, n - 1)} :
                      c \in nearest}

\* lines 87-102: collection.query and the formatted results
SearchResults(store, conditions, top_k) ==
    NearestLists({c \in store : PassesFilter(c, conditions)}, top_k)

-----------------------------------------------------------------------------
(* Response sanitizer: the regular expressions and string methods of       *)
(* OPEAMistralService.generate_answer, lines 188-205, and of               *)
(* OPEARAGOrchestrator.generate_answer, lines 230-246                      *)

\* \s and str.split(): white space
IsSpace(c) == c \in {" ", "\n", "\t"}

\* \d: decimal digits, the Devanagari ones included
IsDigit(c) ==
    c \in {"0", "1", "2", "3", "4", "5", "6", "7", "8", "9",
           "u0966", "u0967", "u0968", "u0969", "u096A", "u096B", "u096C",
           "u096D", "u096E", "u096F"}

LowerCase == <<"a", "b", "c", "d", "e", "f", "g", "h", "i", "j", "k", "l", "m",
               "n", "o", "p", "q", "r", "s", "t", "u", "v", "w", "x", "y", "z">>

UpperCase == <<"A", "B", "C", "D", "E", "F", "G", "H", "I", "J", "K", "L", "M",
               "N", "O", "P", "Q", "R", "S", "T", "U", "V", "W", "X", "Y", "Z">>

\* [a-zA-Z]
IsLatinLetter(c) ==
    \E k \in 1..26 : c = LowerCase[k] \/ c = UpperCase[k]

\* Devanagari combining signs: not alphanumeric, so not \w
DevanagariSigns ==
    {"u0900", "u0901", "u0902", "u0903", "u093A", "u093B", "u093C", "u093E",
     "u093F", "u0940", "u0941", "u0942", "u0943", "u0944", "u0945", "u0946",
     "u0947", "u0948", "u0949", "u094A", "u094B", "u094C", "u094D", "u094E",
     "u094F", "u0964", "u0965"}

\* \w: alphanumeric or underscore.  Of the code points the model uses, the
\* non-ASCII ones are Devanagari: letters and digits are \w, signs are not.
IsWordChar(c) ==
    IF c \in AsciiChars
    THEN IsLatinLetter(c) \/ IsDigit(c) \/ c = "_"
    ELSE c \notin DevanagariSigns

LowerChar(c) ==
    IF \E k \in 1..26 : c = UpperCase[k]
    THEN LowerCase[CHOOSE k \in 1..26 : c = UpperCase[k]]
    ELSE c

UpperChar(c) ==
    IF \E k \in 1..26 : c = LowerCase[k]
    THEN UpperCase[CHOOSE k \in 1..26 : c = LowerCase[k]]
    ELSE c

\* str.lower(), str.upper(), str.capitalize() on a text
LowerText(s) == [k \in 1..Len(s) |-> LowerChar(s[k])]

UpperText(s) == [k \in 1..Len(s) |-> UpperChar(s[k])]

Capitalize(s) ==
    [k \in 1..Len(s) |-> IF k = 1 THEN UpperChar(s[k]) ELSE LowerChar(s[k])]

\* the character classes the expressions scan over
InClass(class, c) ==
    CASE class = "space"       -> IsSpace(c)
      [] class = "not space"   -> ~IsSpace(c)
      [] class = "not ]"       -> c # "]"
      [] class = "line, not ]" -> c # "]" /\ c # "\n"
      [] class = "not )"       -> c # ")"
      [] class = "line"        -> c # "\n"
      [] class = "latin"       -> IsLatinLetter(c)
      [] class = "not latin"   -> ~IsLatinLetter(c)

\* first position >= p whose character is not of the class, Len(s) + 1 if none
SkipWhile(s, p, class) ==
    IF p > Len(s) THEN p
    ELSE LET stops == {q \in p..Len(s) : ~InClass(class, s[q])}
         IN  IF stops = {} THEN Len(s) + 1 ELSE MinOf(stops)

SourceWords ==
    { <<"S", "o", "u", "r", "c", "e">>,
      <<"u0938", "u094D", "u0930", "u094B", "u0924">>,
      <<"u0938", "u0902", "u0926", "u0930", "u094D", "u092D">> }

PageWords == { <<"P", "a", "g", "e">>, <<"u092A", "u0943", "u0937", "u094D", "u0920">> }

\* \[(?:Source|...)\s*\d+[^\]]*\] at p: the bracket, the word, white space,
\* a digit, then anything up to the first "]"
SourceCitationEnd(s, p) ==
    IF s[p] # "[" THEN 0
    ELSE LET ws == {w \in SourceWords : HasAt(s, p + 1, w)}
         IN  IF ws = {} THEN 0
             ELSE LET w == CHOOSE x \in ws : TRUE
                      d == SkipWhile(s, p + 1 + Len(w), "space")
                      e == SkipWhile(s, d, "not ]")
                  IN  IF d <= Len(s) /\ IsDigit(s[d]) /\ e <= Len(s) THEN e ELSE 0

\* (?:Page|...):?\s*\d+.*?\] with the word at q: the last position, or 0
PageTailEnd(s, q) ==
    LET ws == {w \in PageWords : HasAt(s, q, w)}
    IN  IF ws = {} THEN 0
        ELSE LET w == CHOOSE x \in ws : TRUE
                 a == q + Len(w)
                 b == IF a <= Len(s) /\ s[a] = ":" THEN a + 1 ELSE a
                 d == SkipWhile(s, b, "space")
                 e == SkipWhile(s, d + 1, "line, not ]")
             IN  IF d <= Len(s) /\ IsDigit(s[d]) /\ e <= Len(s) /\ s[e] = "]"
                 THEN e ELSE 0

\* the lazy .*? after the bracket: the first q on the line that works
PageFrom(s, q) ==
    LET line_end == SkipWhile(s, q, "line")
        ends     == {r \in q..line_end : r <= Len(s) /\ PageTailEnd(s, r) # 0}
    IN  IF ends = {} THEN 0 ELSE PageTailEnd(s, MinOf(ends))

\* \[.*?(?:Page|...):?\s*\d+.*?\] at p
PageCitationEnd(s, p) == IF s[p] # "[" THEN 0 ELSE PageFrom(s, p + 1)

\* \([^)]*[a-zA-Z][^)]*\) at p: up to the first ")", with a Latin letter inside
LatinParenEnd(s, p) ==
    IF s[p] # "(" THEN 0
    ELSE LET e == SkipWhile(s, p + 1, "not )")
         IN  IF e <= Len(s) /\ \E k \in (p + 1)..(e - 1) : IsLatinLetter(s[k])
             THEN e ELSE 0

\* the last position of the match of the named expression that starts at p
MatchEnd(pattern, s, p) ==
    CASE pattern = "source" -> SourceCitationEnd(s, p)
      [] pattern = "page"   -> PageCitationEnd(s, p)
      [] pattern = "paren"  -> LatinParenEnd(s, p)

\* re.sub(pattern, '', s) from p on: leftmost matches, not overlapping
RECURSIVE RemoveMatchesFrom(_, _, _)
RemoveMatchesFrom(pattern, s, p) ==
    LET starts == {q \in p..Len(s) : MatchEnd(pattern, s, q) # 0}
    IN  IF starts = {} THEN SubSeq(s, p, Len(s))
        ELSE LET q == MinOf(starts)
             IN  SubSeq(s, p, q - 1)
                   \o RemoveMatchesFrom(pattern, s, MatchEnd(pattern, s, q) + 1)

RemoveMatches(pattern, s) == RemoveMatchesFrom(pattern, s, 1)

\* ' '.join(text.split()): words joined by single spaces (this includes strip())
RECURSIVE CollapseFrom(_, _)
CollapseFrom(s, p) ==
    LET a == SkipWhile(s, p, "space")
        b == SkipWhile(s, a, "not space")
        c == SkipWhile(s, b, "space")
    IN  IF a > Len(s) THEN <<>>
        ELSE SubSeq(s, a, b - 1)
               \o (IF c > Len(s) THEN <<>> ELSE <<" ">> \o CollapseFrom(s, c))

CollapseWhitespace(s) == CollapseFrom(s, 1)

\* the three lines that mistral_service 192-194 and rag_orchestrator 231-233 share
CleanCitations(text) ==
    CollapseWhitespace(RemoveMatches("page", RemoveMatches("source", text)))

\* _get_hindi_terms, lines 87-121: the glossary, in insertion order
english_to_hindi ==
    << <<<<"p", "h", "o", "t", "o", "s", "y", "n", "t", "h", "e", "s", "i",
          "s">>,
        <<"u092A", "u094D", "u0930", "u0915", "u093E", "u0936", " ", "u0938",
          "u0902", "u0936", "u094D", "u0932", "u0947", "u0937", "u0923">>>>,
       <<<<"l", "i", "g", "h", "t">>,
        <<"u092A", "u094D", "u0930", "u0915", "u093E", "u0936">>>>,
       <<<<"p", "l", "a", "n", "t", "s">>,
        <<"u092A", "u094C", "u0927", "u0947">>>>,
       <<<<"l", "e", "a", "v", "e", "s">>,
        <<"u092A", "u0924", "u094D", "u0924", "u0947">>>>,
       <<<<"g", "r", "e", "e", "n">>,
        <<"u0939", "u0930", "u093E">>>>,
       <<<<"f", "o", "o", "d">>,
        <<"u092D", "u094B", "u091C", "u0928">>>>,
       <<<<"c", "a", "r", "b", "o", "n", " ", "d", "i", "o", "x", "i", "d",
          "e">>,
        <<"u0915", "u093E", "u0930", "u094D", "u092C", "u0928", " ", "u0921",
          "u093E", "u0907", "u0911", "u0915", "u094D", "u0938", "u093E",
          "u0907", "u0921">>>>,
       <<<<"w", "a", "t", "e", "r">>,
        <<"u092A", "u093E", "u0928", "u0940">>>>,
       <<<<"s", "u", "n", "l", "i", "g", "h", "t">>,
        <<"u0938", "u0942", "u0930", "u094D", "u092F", " ", "u0915", "u093E",
          " ", "u092A", "u094D", "u0930", "u0915", "u093E", "u0936">>>>,
       <<<<"o", "x", "y", "g", "e", "n">>,
        <<"u0911", "u0915", "u094D", "u0938", "u0940", "u091C", "u0928">>>>,
       <<<<"a", "t", "m", "o", "s", "p", "h", "e", "r", "e">>,
        <<"u0935", "u093E", "u092F", "u0941", "u092E", "u0902", "u0921",
          "u0932">>>>,
       <<<<"r", "e", "f", "l", "e", "c", "t", "i", "o", "n">>,
        <<"u092A", "u0930", "u093E", "u0935", "u0930", "u094D", "u0924",
          "u0928">>>>,
       <<<<"s", "h", "a", "d", "o", "w">>,
        <<"u091B", "u093E", "u092F", "u093E">>>>,
       <<<<"t", "r", "a", "n", "s", "p", "a", "r", "e", "n", "t">>,
        <<"u092A", "u093E", "u0930", "u0926", "u0930", "u094D", "u0936",
          "u0940">>>>,
       <<<<"o", "p", "a", "q", "u", "e">>,
        <<"u0905", "u092A", "u093E", "u0930", "u0926", "u0930", "u094D",
          "u0936", "u0940">>>>,
       <<<<"t", "r", "a", "n", "s", "l", "u", "c", "e", "n", "t">>,
        <<"u0905", "u0930", "u094D", "u0927", "u092A", "u093E", "u0930",
          "u0926", "u0930", "u094D", "u0936", "u0940">>>>,
       <<<<"p", "r", "o", "c", "e", "s", "s">>,
        <<"u092A", "u094D", "u0930", "u0915", "u094D", "u0930", "u093F",
          "u092F", "u093E">>>>,
       <<<<"e", "n", "e", "r", "g", "y">>,
        <<"u090A", "u0930", "u094D", "u091C", "u093E">>>>,
       <<<<"c", "h", "l", "o", "r", "o", "p", "h", "y", "l", "l">>,
        <<"u0939", "u0930", "u093F", "u0924", "u0932", "u0935", "u0915">>>>,
       <<<<"g", "l", "u", "c", "o", "s", "e">>,
        <<"u0917", "u094D", "u0932", "u0942", "u0915", "u094B", "u091C">>>>,
       <<<<"s", "t", "a", "r", "c", "h">>,
        <<"u0938", "u094D", "u091F", "u093E", "u0930", "u094D", "u091A">>>>,
       <<<<"p", "r", "o", "d", "u", "c", "t", "i", "o", "n">>,
        <<"u0909", "u0924", "u094D", "u092A", "u093E", "u0926", "u0928">>>>,
       <<<<"r", "e", "s", "u", "l", "t", "s">>,
        <<"u092A", "u0930", "u093F", "u0923", "u093E", "u092E">>>>,
       <<<<"p", "r", "e", "s", "e", "n", "c", "e">>,
        <<"u0909", "u092A", "u0938", "u094D", "u0925", "u093F", "u0924",
          "u093F">>>>,
       <<<<"u", "s", "i", "n", "g">>,
        <<"u0915", "u093E", " ", "u0909", "u092A", "u092F", "u094B", "u0917",
          " ", "u0915", "u0930", "u0915", "u0947">>>>,
       <<<<"m", "a", "k", "e">>,
        <<"u092C", "u0928", "u093E", "u0924", "u0947", " ", "u0939", "u0948",
          "u0902">>>>,
       <<<<"t", "h", "e", "i", "r">>,
        <<"u0905", "u092A", "u0928", "u093E">>>>,
       <<<<"b", "y", " ", "w", "h", "i", "c", "h">>,
        <<"u091C", "u093F", "u0938", "u0915", "u0947", " ", "u0926", "u094D",
          "u0935", "u093E", "u0930", "u093E">>>>,
       <<<<"i", "s", " ", "a">>,
        <<"u090F", "u0915">>>>,
       <<<<"a", "n", "d">>,
        <<"u0924", "u0925", "u093E">>>>,
       <<<<"i", "n", " ", "t", "h", "e">>,
        <<"u092E", "u0947", "u0902">>>>,
       <<<<"o", "f">>,
        <<"u0915", "u093E">>>>,
       <<<<"s", "u", "n">>,
        <<"u0938", "u0942", "u0930", "u094D", "u092F">>>> >>

\* sorted(hindi_terms.items(), key=lambda x: len(x[0]), reverse=True): a
\* stable sort, so terms of equal length keep their order in the glossary
RECURSIVE InsertByLength(_, _)
InsertByLength(x, sorted) ==
    IF sorted = <<>> THEN <<x>>
    ELSE IF Len(Head(sorted)[1]) >= Len(x[1])
         THEN <<Head(sorted)>> \o InsertByLength(x, Tail(sorted))
         ELSE <<x>> \o sorted

RECURSIVE LongestFirst(_)
LongestFirst(terms) ==
    IF terms = <<>> THEN <<>>
    ELSE InsertByLength(terms[Len(terms)],
                        LongestFirst(SubSeq(terms, 1, Len(terms) - 1)))

\* \b at the gap before position p of s
WordBoundary(s, p) ==
    LET before == p > 1 /\ IsWordChar(s[p - 1])
        after  == p <= Len(s) /\ IsWordChar(s[p])
    IN  before # after

\* eng matches at position p of s as a whole word, whatever the case
WholeWordAt(s, p, eng) ==
    /\ p + Len(eng) - 1 <= Len(s)
    /\ LowerText(SubSeq(s, p, p + Len(eng) - 1)) = LowerText(eng)
    /\ WordBoundary(s, p)
    /\ WordBoundary(s, p + Len(eng))

\* re.sub(r'\b' + re.escape(eng) + r'\b', hindi, s, flags=re.IGNORECASE)
RECURSIVE SubWholeWordFrom(_, _, _, _)
SubWholeWordFrom(s, p, eng, hindi) ==
    LET at == {q \in p..Len(s) : WholeWordAt(s, q, eng)}
    IN  IF at = {} THEN SubSeq(s, p, Len(s))
        ELSE LET q == MinOf(at)
             IN  SubSeq(s, p, q - 1) \o hindi
                   \o SubWholeWordFrom(s, q + Len(eng), eng, hindi)

\* mistral_service lines 204-205: the loop from term k of the sorted list on
RECURSIVE SubGlossaryWords(_, _, _)
SubGlossaryWords(s, sorted, k) ==
    IF k > Len(sorted) \/ s = <<>> THEN s
    ELSE SubGlossaryWords(SubWholeWordFrom(s, 1, sorted[k][1], sorted[k][2]),
                          sorted, k + 1)

\* re.findall(r'[a-zA-Z]{4,}', s) from p on: the number of matches
RECURSIVE CountLatinRuns(_, _)
CountLatinRuns(s, p) ==
    LET a == SkipWhile(s, p, "not latin")
        b == SkipWhile(s, a, "latin")
    IN  IF a > Len(s) THEN 0
        ELSE (IF b - a >= 4 THEN 1 ELSE 0) + CountLatinRuns(s, b)

\* the leakage threshold, the literal 5 of mistral_service line 200
leakage_threshold == 5

\* mistral_service lines 188-205: the answer text made of the model's text
AdapterPostProcess(text, lang, terms) ==
    LET cleaned == CleanCitations(text)
    IN  IF /\ Lower(lang) \in {"hindi", "hi"}
           /\ CountLatinRuns(cleaned, 1) > leakage_threshold
           /\ terms # <<>>
        THEN LET sorted == LongestFirst(terms)
             IN  SubGlossaryWords(cleaned, sorted, 1)
        ELSE cleaned

\* rag_orchestrator lines 239-242: the four replace calls of one term
ReplaceTerm(s, eng_term, hindi_term) ==
    Replace(Replace(Replace(Replace(s, eng_term, hindi_term),
                            Capitalize(eng_term), hindi_term),
                    UpperText(eng_term), hindi_term),
            LowerText(eng_term), hindi_term)

\* rag_orchestrator lines 238-242: the loop from term k of the sorted list on
RECURSIVE ReplaceGlossaryTerms(_, _, _)
ReplaceGlossaryTerms(s, sorted, k) ==
    IF k > Len(sorted) \/ s = <<>> THEN s
    ELSE ReplaceGlossaryTerms(ReplaceTerm(s, sorted[k][1], sorted[k][2]),
                              sorted, k + 1)

\* OrchestratorSanitize falling back on the orchestrator's own glossary when
\* the caller gave none
OrchestratorSanitize_default_glossary(text, lang, terms) ==
    LET cleaned == CleanCitations(text)
        used    == IF terms # <<>> THEN terms ELSE english_to_hindi
    IN  IF Lower(lang) \in {"hindi", "hi"}
        THEN LET sorted == LongestFirst(used)
             IN  CollapseWhitespace(
                     RemoveMatches("paren",
                         ReplaceGlossaryTerms(cleaned, sorted, 1)))
        ELSE cleaned

\* rag_orchestrator lines 228-248: the answer made of a successful result
OrchestratorSanitize(text, lang, terms) ==
    LET cleaned == CleanCitations(text)
    IN  IF Lower(lang) \in {"hindi", "hi"} /\ terms # <<>>
        THEN LET sorted == LongestFirst(terms)
             IN  CollapseWhitespace(
                     RemoveMatches("paren",
                         ReplaceGlossaryTerms(cleaned, sorted, 1)))
        ELSE cleaned

-----------------------------------------------------------------------------
(* The generation collaborator: what self.model (llama_cpp.Llama) can give *)

\* most invocations of one collaborator the model follows within a request
MaxCalls == 2

\* a completion as llama_cpp returns it
Completion(text, n) ==
    [choices |-> <<[text |-> text]>>, usage |-> [completion_tokens |-> n]]

\* raw texts: an English answer carrying a citation and loose white space,
RawCitedAnswer ==
    <<" ", "L", "i", "g", "h", "t", " ", "t", "r", "a", "v", "e", "l", "s",
      " ", "i", "n", " ", " ", "s", "t", "r", "a", "i", "g", "h", "t", " ",
      "l", "i", "n", "e", "s", " ", "[", "S", "o", "u", "r", "c", "e", " ",
      "1", ",", " ", "P", "a", "g", "e", " ", "1", "2", "]", ".", "\n">>

\* a Hindi answer that leaks Latin-script words, and a clean Hindi answer
RawLeakyAnswer ==
    <<"u092A", "u094C", "u0927", "u0947", " ", "s", "u", "n", "l", "i",
      "g", "h", "t", " ", "w", "a", "t", "e", "r", " ", "e", "n", "e", "r",
      "g", "y", " ", "p", "r", "o", "c", "e", "s", "s", " ", "p", "l", "a",
      "n", "t", "s", " ", "l", "e", "a", "v", "e", "s", " ", "(", "c", "h",
      "l", "o", "r", "o", "p", "h", "y", "l", "l", ")", " ", "u0938",
      "u0947", " ", "f", "o", "o", "d", " ", "u092C", "u0928", "u093E",
      "u0924", "u0947", " ", "u0939", "u0948", "u0902", " ", "[", "u0938",
      "u094D", "u0930", "u094B", "u0924", " ", "2", "]">>

RawHindiAnswer ==
    <<"u092A", "u094D", "u0930", "u0915", "u093E", "u0936", " ", "u0938",
      "u0940", "u0927", "u0940", " ", "u0930", "u0947", "u0916", "u093E",
      " ", "u092E", "u0947", "u0902", " ", "u091A", "u0932", "u0924",
      "u093E", " ", "u0939", "u0948", "u0964">>

RawTexts == {RawCitedAnswer, RawLeakyAnswer, RawHindiAnswer}

\* a response whose choices list is empty: response['choices'][0] raises
UnreadableResponse == [choices |-> <<>>, usage |-> [completion_tokens |-> 0]]

ModelResponses ==
    {Completion(t, Len(t)) : t \in RawTexts} \cup {UnreadableResponse}

\* one item of the iterator self.model(..., stream=True) returns
StreamToken(text) == [choices |-> <<[text |-> text]>>]

\* streams: tokens, then exhaustion (raises = FALSE) or an exception of the
\* iterator (raises = TRUE)
ModelStreams ==
    { [tokens |-> <<StreamToken(<<"L", "i">>), StreamToken(<<"g", "h", "t">>)>>,
       raises |-> FALSE],
      [tokens |-> <<StreamToken(<<"L", "i">>)>>, raises |-> TRUE],
      [tokens |-> <<StreamToken(<<"L", "i">>), [choices |-> <<>>]>>,
       raises |-> FALSE],
      [tokens |-> <<>>, raises |-> FALSE] }

-----------------------------------------------------------------------------
(* Prompt envelope: OPEAMistralService.build_mistral_prompt, lines 95-151  *)
(* The prompt is kept as the fields the f-string of lines 137-144 joins;   *)
(* the fixed text of a system instruction is named by its language.        *)

\* line 111: the glossary listing takes the first 15 entries
max_prompt_terms == 15

\* lines 115-117 and 132-134: the section headers of the two templates
EnglishContextHeader ==
    <<"R", "e", "f", "e", "r", "e", "n", "c", "e", " ", "M", "a", "t", "e",
      "r", "i", "a", "l", " ", "f", "r", "o", "m", " ", "N", "C", "E", "R",
      "T", " ", "T", "e", "x", "t", "b", "o", "o", "k", "s", ":">>

EnglishQuestionHeader ==
    <<"S", "t", "u", "d", "e", "n", "t", "'", "s", " ", "Q", "u", "e", "s",
      "t", "i", "o", "n", ":">>

EnglishAnswerInstruction ==
    <<"A", "n", "s", "w", "e", "r", " ", "(", "i", "n", " ", "E", "n", "g",
      "l", "i", "s", "h", ",", " ", "w", "i", "t", "h", "o", "u", "t", " ",
      "s", "o", "u", "r", "c", "e", " ", "c", "i", "t", "a", "t", "i", "o",
      "n", "s", " ", "i", "n", " ", "t", "e", "x", "t", ")", ":">>

HindiContextHeader ==
    <<"N", "C", "E", "R", "T", " ", "u092A", "u093E", "u0920", "u094D",
      "u092F", "u092A", "u0941", "u0938", "u094D", "u0924", "u0915", " ",
      "u0938", "u0947", " ", "u0938", "u0902", "u0926", "u0930", "u094D",
      "u092D", " ", "u0938", "u093E", "u092E", "u0917", "u094D", "u0930",
      "u0940", ":">>

HindiQuestionHeader ==
    <<"u091B", "u093E", "u0924", "u094D", "u0930", " ", "u0915", "u093E",
      " ", "u092A", "u094D", "u0930", "u0936", "u094D", "u0928", ":">>

HindiAnswerInstruction ==
    <<"u0909", "u0924", "u094D", "u0924", "u0930", " ", "(", "u0915",
      "u0947", "u0935", "u0932", " ", "u0939", "u093F", "u0902", "u0926",
      "u0940", " ", "u092E", "u0947", "u0902", ",", " ", "u092C", "u093F",
      "u0928", "u093E", " ", "u0915", "u093F", "u0938", "u0940", " ",
      "u0938", "u094D", "u0930", "u094B", "u0924", " ", "u0909", "u0926",
      "u094D", "u0927", "u0930", "u0923", " ", "u0915", "u0947", ")", ":">>

\* lines 96-112 and 119-130: system_instruction
SystemInstruction(hindi, g, subj, terms) ==
    [template |-> IF hindi THEN "hindi" ELSE "english",
     grade    |-> g,
     subject  |-> subj,
     terms    |-> IF hindi THEN Take(terms, max_prompt_terms) ELSE <<>>]

\* lines 137-144: the envelope
MistralPrompt(q, ctx, g, lang, subj, terms) ==
    LET hindi == is_hindi_query(lang)
    IN  [open               |-> <<"[", "I", "N", "S", "T", "]">>,
         system_instruction |-> SystemInstruction(hindi, g, subj, terms),
         context_header     |-> IF hindi THEN HindiContextHeader
                                ELSE EnglishContextHeader,
         context_text       |-> ctx,
         question_header    |-> IF hindi THEN HindiQuestionHeader
                                ELSE EnglishQuestionHeader,
         query              |-> q,
         answer_instruction |-> IF hindi THEN HindiAnswerInstruction
                                ELSE EnglishAnswerInstruction,
         close              |-> <<"[", "/", "I", "N", "S", "T", "]">>]

\* lines 95-151: the rest of build_mistral_prompt, and its return to the
\* entry point that called it (lines 165-172, lines 238-244)
BuildPrompt ==
    /\ pc = "built"
    /\ prompt' = MistralPrompt(query, context_text, grade_arg, language,
                               subject_arg, hindi_terms)
    /\ pc' = IF entry = "stream_answer" THEN "stream_call" ELSE "llm_call"
    /\ UNCHANGED <<entry, query, grade_arg, subject_arg, hindi_terms,
                   model_request, model_response, result, fault>>
    /\ UNCHANGED <<promptVars, orcVars, apiVars, serviceVars, calls>>

-----------------------------------------------------------------------------
(* Generation adapter: OPEAMistralService.generate_answer, stream_answer *)

\* MistralConfig.max_tokens, line 21
max_tokens == 512

ModelName == "Mistral-7B-Instruct-v0.2"

\* line 184: the stop list of generate_answer
StopSequences ==
    <<<<"[", "I", "N", "S", "T", "]">>,
      <<"S", "t", "u", "d", "e", "n", "t", ":">>,
      <<"C", "o", "n", "t", "e", "x", "t", ":">>,
      <<"u0938", "u0902", "u0926", "u0930", "u094D", "u092D", ":">>,
      <<"u091B", "u093E", "u0924", "u094D", "u0930", " ", "u0915", "u093E", " ",
        "u092A", "u094D", "u0930", "u0936", "u094D", "u0928", ":">>>>

\* lines 221 (adapter) and 251 (orchestrator): the fixed degraded-answer text
DegradedAnswer ==
    <<"E", "r", "r", "o", "r", ":", " ", "C", "o", "u", "l", "d", " ", "n",
      "o", "t", " ", "g", "e", "n", "e", "r", "a", "t", "e", " ", "r", "e",
      "s", "p", "o", "n", "s", "e">>

\* lines 178-186: the keyword arguments of the call of self.model
GenerateRequest(p) ==
    [prompt |-> p, max_tokens |-> max_tokens, stop |-> StopSequences,
     echo |-> FALSE, stream |-> FALSE]

\* lines 247-252: stream_answer passes no stop list
StreamRequest(p) ==
    [prompt |-> p, max_tokens |-> max_tokens, stop |-> <<>>,
     echo |-> FALSE, stream |-> TRUE]

\* lines 188 and 207: response['choices'][0]['text'] and
\* response['usage']['completion_tokens'] can be read
Readable(response) ==
    /\ "choices" \in DOMAIN response
    /\ Len(response.choices) >= 1
    /\ "text" \in DOMAIN response.choices[1]
    /\ "usage" \in DOMAIN response
    /\ "completion_tokens" \in DOMAIN response.usage

\* lines 211-216: the result of a generation that went through
SuccessResult(response, lang, terms) ==
    [answer      |-> AdapterPostProcess(response.choices[1].text, lang, terms),
     tokens_used |-> response.usage.completion_tokens,
     model       |-> ModelName,
     success     |-> TRUE]

\* lines 218-226: the result the except clause makes of an exception
FailureResult_flagged_success(e) ==
    [answer |-> DegradedAnswer, tokens_used |-> 0, model |-> ModelName,
     success |-> TRUE, error |-> e]

FailureResult(e) ==
    [answer |-> DegradedAnswer, tokens_used |-> 0, model |-> ModelName,
     success |-> FALSE, error |-> e]

\* where generate_answer goes when self.model raises: the except clause
\* returns; AfterModelFailure_retry calls the model again
AfterModelFailure_retry == "llm_call"

AfterModelFailure == "llm_returned"

\* lines 176-186: the call of self.model inside the try; an exception goes
\* to the except clause of lines 218-226
LlmModelCall ==
    /\ pc = "llm_call"
    /\ calls.generation < MaxCalls
    /\ calls' = [calls EXCEPT !.generation = @ + 1]
    /\ model_request' = GenerateRequest(prompt)
    /\ \/ /\ model_response' \in ModelResponses
          /\ pc' = "llm_read"
          /\ UNCHANGED <<result, fault>>
       \/ /\ fault' = "model call"
          /\ result' = FailureResult(fault')
          /\ pc' = AfterModelFailure
          /\ UNCHANGED model_response
    /\ UNCHANGED <<entry, query, grade_arg, subject_arg, hindi_terms, prompt>>
    /\ UNCHANGED <<promptVars, orcVars, apiVars, serviceVars>>

\* lines 188-216: read the response, post-process, return; a response that
\* cannot be read raises inside the try and goes to lines 218-226
LlmReadResult ==
    /\ pc = "llm_read"
    /\ IF Readable(model_response)
       THEN /\ result' = SuccessResult(model_response, language, hindi_terms)
            /\ UNCHANGED fault
       ELSE /\ fault' = "reading result"
            /\ result' = FailureResult(fault')
    /\ pc' = "llm_returned"
    /\ UNCHANGED <<entry, query, grade_arg, subject_arg, hindi_terms, prompt,
                   model_request, model_response>>
    /\ UNCHANGED <<promptVars, orcVars, apiVars, serviceVars, calls>>

\* lines 247-252: the call of self.model with stream=True; stream_answer has
\* no try, so an exception leaves the generator
StreamModelCall ==
    /\ pc = "stream_call"
    /\ calls.generation < MaxCalls
    /\ calls' = [calls EXCEPT !.generation = @ + 1]
    /\ model_request' = StreamRequest(prompt)
    /\ \/ /\ model_response' \in ModelStreams
          /\ result' = <<>>
          /\ pc' = "streaming"
          /\ UNCHANGED fault
       \/ /\ fault' = "model call"
          /\ pc' = "raised"
          /\ UNCHANGED <<model_response, result>>
    /\ UNCHANGED <<entry, query, grade_arg, subject_arg, hindi_terms, prompt>>
    /\ UNCHANGED <<promptVars, orcVars, apiVars, serviceVars>>

\* lines 247-254: one iteration of the for loop; result holds the texts
\* yielded so far
StreamYield ==
    /\ pc = "streaming"
    /\ model_response.tokens # <<>>
    /\ LET token == Head(model_response.tokens)
       IN  IF /\ "choices" \in DOMAIN token
              /\ Len(token.choices) >= 1
              /\ "text" \in DOMAIN token.choices[1]
           THEN /\ result' = Append(result, token.choices[1].text)
                /\ model_response' =
                     [model_response EXCEPT !.tokens = Tail(@)]
                /\ pc' = "streaming"
                /\ UNCHANGED fault
           ELSE /\ fault' = "reading result"
                /\ pc' = "raised"
                /\ UNCHANGED <<model_response, result>>
    /\ UNCHANGED <<entry, query, grade_arg, subject_arg, hindi_terms, prompt,
                   model_request>>
    /\ UNCHANGED <<promptVars, orcVars, apiVars, serviceVars, calls>>

\* the model's iterator is exhausted, or raises where it should give the
\* next token
StreamEnd ==
    /\ pc = "streaming"
    /\ model_response.tokens = <<>>
    /\ IF model_response.raises
       THEN /\ fault' = "model call"
            /\ pc' = "raised"
       ELSE /\ pc' = "stream_done"
            /\ UNCHANGED fault
    /\ UNCHANGED <<entry, query, grade_arg, subject_arg, hindi_terms, prompt,
                   model_request, model_response, result>>
    /\ UNCHANGED <<promptVars, orcVars, apiVars, serviceVars, calls>>

-----------------------------------------------------------------------------
(* The vector store the retrieval gateway queries *)

\* a chunk id
ChunkId(k) == <<"c">> \o Str(k)

StoreMetadata(g, subj, lang, page) ==
    [chapter |-> "Unknown", section |-> "Light", page_num |-> page,
     grade |-> g, subject |-> subj, language |-> lang,
     chunk_index |-> page, token_count |-> page]

\* dict.get: the value at a key of a dictionary, or a default
Get(dict, key, default) == IF key \in DOMAIN dict THEN dict[key] ELSE default

\* lines 43-46: the keys of the nested metadata dictionary of a chunk, if it
\* has one
NestedKeys(chunk) ==
    IF "metadata" \in DOMAIN chunk THEN DOMAIN chunk.metadata ELSE {}

\* lines 30-48: the flat metadata add_chunks stores for a chunk: the eight
\* top-level keys, "Unknown" for a chapter or section the chunk has not and
\* -1 for its page, None for another key it has not, and every key k of its
\* nested metadata dictionary as meta_k
Meta(chunk) ==
    LET meta == [grade       |-> Get(chunk, "grade", None),
                 subject     |-> Get(chunk, "subject", None),
                 language    |-> Get(chunk, "language", None),
                 chapter     |-> Get(chunk, "chapter", "Unknown"),
                 page_num    |-> Get(chunk, "page_num", -1),
                 section     |-> Get(chunk, "section", "Unknown"),
                 chunk_index |-> Get(chunk, "chunk_index", None),
                 token_count |-> Get(chunk, "token_count", None)]
    IN  IF NestedKeys(chunk) = {} THEN meta
        ELSE [key \in DOMAIN meta
                       \cup {"meta_" \o k : k \in NestedKeys(chunk)} |->
                IF key \in DOMAIN meta THEN meta[key]
                ELSE chunk.metadata[CHOOSE k \in NestedKeys(chunk) :
                                        "meta_" \o k = key]]

\* lines 24-26 and 51-56: what collection.add receives for a chunk: its id,
\* its text as the document, its embedding (carried here as the distance the
\* store will compute from the query embedding of the search) and its flat
\* metadata
StoredChunk(chunk) ==
    [chunk_id |-> chunk.chunk_id, text |-> chunk.text,
     distance |-> chunk.embedding, metadata |-> Meta(chunk)]

\* as add_chunks stored them, lines 32-41.  Six grade-6 science chunks, four
\* of them over the per-chunk ceiling; one chunk of another grade, one
\* indexed as "Hindi" and one of another subject.
StoreChunks ==
    << [chunk_id |-> ChunkId(1), text |-> MkText(900),
        metadata |-> StoreMetadata(6, "science", "english", 11)],
       [chunk_id |-> ChunkId(2), text |-> MkText(820),
        metadata |-> StoreMetadata(6, "science", "english", 12)],
       [chunk_id |-> ChunkId(3), text |-> MkText(805),
        metadata |-> StoreMetadata(6, "science", "english", 13)],
       [chunk_id |-> ChunkId(4), text |-> MkText(850),
        metadata |-> StoreMetadata(6, "science", "english", 14)],
       [chunk_id |-> ChunkId(5), text |-> MkText(300),
        metadata |-> StoreMetadata(6, "science", "english", 15)],
       [chunk_id |-> ChunkId(6), text |-> MkText(40),
        metadata |-> StoreMetadata(6, "science", "english", 16)],
       [chunk_id |-> ChunkId(7), text |-> MkText(30),
        metadata |-> StoreMetadata(7, "science", "english", 17)],
       [chunk_id |-> ChunkId(8), text |-> MkText(30),
        metadata |-> StoreMetadata(6, "science", "Hindi", 18)],
       [chunk_id |-> ChunkId(9), text |-> MkText(30),
        metadata |-> StoreMetadata(6, "mathematics", "english", 19)] >>

\* the distance of every stored chunk from a query embedding, as the store
\* computes it: one assignment with a tie, one in the opposite order
DistanceAssignments ==
    { <<100, 200, 200, 300, 400, 500, 50, 20, 1200>>,
      <<500, 400, 300, 200, 150, 100, 600, 20, 1200>> }

\* the collection as collection.query sees it for one query embedding
StoreAt(distances) ==
    { [chunk_id |-> StoreChunks[k].chunk_id, text |-> StoreChunks[k].text,
       metadata |-> StoreChunks[k].metadata, distance |-> distances[k]] :
        k \in 1..Len(StoreChunks) }

-----------------------------------------------------------------------------
(* Pipeline: OPEARAGOrchestrator.process_query and generate_answer *)
\* OrEnglish, were the language taken from the script of the query text
\* (what detect_query_language reports) instead of the request's parameter
OrEnglish_of_query_text(lang) ==
    IF ~IsAscii(request.query) THEN "hindi" ELSE "english"

\* x or "english", lines 141 (orchestrator) and 307 (api_server)
OrEnglish(lang) == IF lang \in {None, ""} THEN "english" ELSE lang

\* line 153: the vector the embedding model gives for a text
Embedding(text) == [of |-> text]

\* line 253
LlmUnavailableAnswer ==
    <<"E", "r", "r", "o", "r", ":", " ", "L", "L", "M", " ", "s", "e", "r",
      "v", "i", "c", "e", " ", "n", "o", "t", " ", "a", "v", "a", "i", "l",
      "a", "b", "l", "e">>

\* line 185
confidence == 900

\* where process_query goes when the embedding model raises: nothing
\* catches it in the orchestrator
AfterEmbeddingFailure == "raised"

\* lines 141-150: response language and search query
OrcCanonicalize ==
    /\ pc = "orc_canonicalize"
    /\ response_language' = OrEnglish(response_language)
    /\ search_query' = SearchQuery(request.query)
    /\ pc' = "orc_embed"
    /\ UNCHANGED <<query_embedding, where_filter, retrieved_chunks, answer>>
    /\ UNCHANGED <<promptVars, adapterVars, apiVars, serviceVars, calls>>

\* line 153: the call of the embedding model
OrcEmbed ==
    /\ pc = "orc_embed"
    /\ calls.embedding < MaxCalls
    /\ calls' = [calls EXCEPT !.embedding = @ + 1]
    /\ \/ /\ query_embedding' = Embedding(search_query)
          /\ pc' = "orc_search"
          /\ UNCHANGED fault
       \/ /\ fault' = "embedding"
          /\ pc' = AfterEmbeddingFailure
          /\ UNCHANGED query_embedding
    /\ UNCHANGED <<response_language, search_query, where_filter,
                   retrieved_chunks, answer>>
    /\ UNCHANGED <<entry, query, grade_arg, subject_arg, hindi_terms, prompt,
                   model_request, model_response, result>>
    /\ UNCHANGED <<promptVars, apiVars, serviceVars>>

\* process_query going on to the generation when the search raises
AfterSearchFailure_generates == "orc_generate"

\* where process_query goes when the vector search raises: nothing catches
\* it in the orchestrator
AfterSearchFailure == "raised"

\* the language constraint of the search, were it the response language
search_language_of_response == response_language

\* line 160: the language constraint process_query passes to the search
search_language == "english"

\* lines 156-162, and OPEAVectorStore.search, lines 60-102
OrcSearch ==
    /\ pc = "orc_search"
    /\ calls.search < MaxCalls
    /\ calls' = [calls EXCEPT !.search = @ + 1]
    /\ where_filter' =
         WhereFilter(WhereConditions(SomeInt(request.grade), request.subject,
                                     search_language))
    /\ \/ /\ retrieved_chunks' \in
                 SearchResults(collection, Conditions(where_filter'),
                               adjusted_top_k)
          /\ pc' = "orc_generate"
          /\ UNCHANGED fault
       \/ /\ fault' = "vector search"
          /\ pc' = AfterSearchFailure
          /\ UNCHANGED retrieved_chunks
    /\ UNCHANGED <<response_language, search_query, query_embedding, answer>>
    /\ UNCHANGED <<entry, query, grade_arg, subject_arg, hindi_terms, prompt,
                   model_request, model_response, result>>
    /\ UNCHANGED <<promptVars, apiVars, serviceVars>>

\* the query of the generation call, were it the canonical search string
generation_query_canonical == search_query

\* line 176: query=query, the query argument of process_query
generation_query == request.query

\* lines 165-182 and 215-223: the context chunks and the call of the
\* adapter; lines 252-253 when there is no LLM service
OrcGenerate ==
    /\ pc = "orc_generate"
    /\ context_chunks' =
         [k \in 1..Len(retrieved_chunks) |->
            [text     |-> retrieved_chunks[k].text,
             metadata |-> retrieved_chunks[k].metadata]]
    /\ IF llm_service = None
       THEN /\ answer' = LlmUnavailableAnswer
            /\ pc' = "api_format_citations"
            /\ UNCHANGED <<entry, query, grade_arg, subject_arg, language,
                           hindi_terms>>
       ELSE /\ entry' = "generate_answer"
            /\ query' = generation_query
            /\ grade_arg' = request.grade
            /\ subject_arg' = IF request.subject \in {None, ""}
                              THEN "science" ELSE request.subject
            /\ language' = response_language
            /\ hindi_terms' = IF Lower(response_language) \in {"hindi", "hi"}
                              THEN english_to_hindi ELSE <<>>
            /\ pc' = "build"
            /\ UNCHANGED answer
    /\ UNCHANGED <<i, context_text, total_chars>>
    /\ UNCHANGED <<prompt, model_request, model_response, result, fault>>
    /\ UNCHANGED <<response_language, search_query, query_embedding,
                   where_filter, retrieved_chunks>>
    /\ UNCHANGED <<apiVars, serviceVars, calls>>

\* lines 225-251: the answer made of the adapter's result
OrchestratorAnswer(res, lang, terms) ==
    IF res.success
    THEN OrchestratorSanitize(res.answer, lang, terms)
    ELSE DegradedAnswer

\* lines 225-251, then lines 184-202: process_query returns
OrcAfterGenerate ==
    /\ pc = "llm_returned"
    /\ answer' = OrchestratorAnswer(result, language, hindi_terms)
    /\ pc' = "api_format_citations"
    /\ UNCHANGED <<response_language, search_query, query_embedding,
                   where_filter, retrieved_chunks>>
    /\ UNCHANGED <<promptVars, adapterVars, apiVars, serviceVars, calls>>

-----------------------------------------------------------------------------
(* Request surface: api_server.process_query *)

\* line 310: the ceiling on top_k of a Hindi response
hindi_top_k == 3

\* line 328
default_tokens_used == 512

\* line 40
default_top_k == 3

\* QueryRequest, lines 34-40: the model FastAPI builds from the JSON body;
\* a field left out takes its declared default
QueryRequest(body) ==
    [query    |-> body.query,
     grade    |-> body.grade,
     subject  |-> body.subject,
     language |-> IF "language" \in DOMAIN body THEN body.language
                  ELSE "english",
     top_k    |-> IF "top_k" \in DOMAIN body THEN body.top_k
                  ELSE default_top_k]

\* lines 117-119
detect_query_language(q) == IF ~IsAscii(q) THEN "hindi" ELSE "english"

\* Min without the ceiling: the requested value whatever the other is
Min_uncapped(a, b) == a

Min(a, b) == IF a <= b THEN a ELSE b

\* an HTTPException as the client receives it
ErrorResponse(code, text) == [status |-> code, detail |-> text]

\* lines 343-358: the QueryResponse the handler returns
OkResponse ==
    [status |-> 200,
     body   |->
       [answer   |-> answer,
        metadata |->
          [grade            |-> request.grade,
           subject          |-> request.subject,
           language         |-> response_language,
           query_language   |-> detect_query_language(request.query),
           model            |-> ModelName,
           tokens_used      |-> IF llm_service = None THEN default_tokens_used
                                ELSE max_tokens,
           confidence       |-> confidence,
           chunks_retrieved |-> Len(retrieved_chunks)],
        citations     |-> citations,
        source_chunks |-> source_chunks]]

\* lines 296-324: the handler up to its call of the orchestrator
ApiEntry ==
    /\ pc = "api_entry"
    /\ IF rag_orchestrator = None
       THEN /\ responses' =
                 Append(responses,
                        ErrorResponse(503, "RAG orchestrator not initialized"))
            /\ pc' = "failed"
            /\ UNCHANGED <<response_language, adjusted_top_k>>
       ELSE /\ response_language' = OrEnglish(request.language)
            /\ adjusted_top_k' =
                 IF Lower(response_language') \in {"hindi", "hi"}
                 THEN Min(request.top_k, hindi_top_k)
                 ELSE request.top_k
            /\ pc' = "orc_canonicalize"
            /\ UNCHANGED responses
    /\ UNCHANGED <<payload, request, citations, source_chunks>>
    /\ UNCHANGED <<search_query, query_embedding, where_filter,
                   retrieved_chunks, answer>>
    /\ UNCHANGED <<promptVars, adapterVars, serviceVars, calls>>

\* lines 326-358: the response of a query that went through
ApiRespond ==
    /\ pc = "api_respond"
    /\ responses' = Append(responses, OkResponse)
    /\ pc' = "responded"
    /\ UNCHANGED <<payload, request, adjusted_top_k, citations, source_chunks>>
    /\ UNCHANGED <<promptVars, adapterVars, orcVars, serviceVars, calls>>

\* lines 360-362: any exception of the try block becomes one HTTP 500
ApiError ==
    /\ pc = "raised"
    /\ responses' = Append(responses, ErrorResponse(500, fault))
    /\ pc' = "failed"
    /\ UNCHANGED <<payload, request, adjusted_top_k, citations, source_chunks>>
    /\ UNCHANGED <<promptVars, adapterVars, orcVars, serviceVars, calls>>

-----------------------------------------------------------------------------
(* SpecPrompt: build_mistral_prompt applied to every bounded chunk list *)

\* text lengths around the two limits: short, 223 (the fifth chunk that still
\* fits after four full English chunks), 224 (the first that does not), the
\* ceiling, one past it, and the 900 of the spec's scenario D
PromptTextLens == {5, 223, 224, 800, 801, 900}

PromptChunks == {[text |-> MkText(n)] : n \in PromptTextLens}

RECURSIVE SeqsUpTo(_, _)
SeqsUpTo(S, n) ==
    IF n = 0 THEN {<<>>}
    ELSE LET shorter == SeqsUpTo(S, n - 1)
         IN  shorter \cup {Append(s, x) : s \in {t \in shorter : Len(t) = n - 1}, x \in S}

\* every list of at most MaxChunks chunks whose texts are any two of the pool
PromptChunkLists ==
    UNION {SeqsUpTo({a, b}, MaxChunks) : a \in PromptChunks, b \in PromptChunks}

InitPrompt ==
    /\ pc = "build"
    /\ language \in {"english", "hindi"}
    /\ context_chunks \in PromptChunkLists
    /\ i = 0
    /\ context_text = <<>>
    /\ total_chars = 0
    /\ AdapterIdle
    /\ OrchestratorIdle
    /\ ApiIdle
    /\ ServicesUp
    /\ collection = {}
    /\ rebuild = NotRunning
    /\ parked = <<>>

NextPrompt == BuildStep \/ BuildExhausted

SpecPrompt == InitPrompt /\ [][NextPrompt]_vars

-----------------------------------------------------------------------------
(* Claims about context assembly (SpecPrompt) *)

\* the labelled contents of the first k chunks, in retrieval order
RECURSIVE PrefixContext(_, _, _)
PrefixContext(chunks, k, hindi) ==
    IF k = 0 THEN <<>>
    ELSE PrefixContext(chunks, k - 1, hindi) \o ChunkContent(k, chunks[k], hindi)

\* C1: for every chunk list and either language, the assembled context blob
\* (labels, chunk texts and separators) is never longer than the budget of 3500.
C1_ContextWithinBudget ==
    /\ Len(context_text) <= 3500
    /\ total_chars = Len(context_text)

\* C1 witness: a chunk was refused because it would have passed the budget.
C1_Witness_BudgetReached ==
    /\ pc = "built"
    /\ i >= 1
    /\ total_chars > 0
    /\ context_text =
         PrefixContext(context_chunks, i - 1, is_hindi_query(language))
    /\ total_chars +
         Len(ChunkContent(i, context_chunks[i], is_hindi_query(language))) > 3500

\* C2: monotone stop.  The context is the labelled contents of a prefix of the
\* list: of all i chunks examined so far, or of all but the last one when that
\* one would have passed the budget; in the latter case assembly is over and
\* no later chunk is examined.
C2_MonotoneStop ==
    LET hindi == is_hindi_query(language)
    IN  \E k \in 0..i :
          /\ context_text = PrefixContext(context_chunks, k, hindi)
          /\ k < i =>
               /\ k = i - 1
               /\ pc = "built"
               /\ Len(context_text)
                    + Len(ChunkContent(i, context_chunks[i], hindi)) > 3500

\* C2 witness: assembly stopped at a chunk although a later, smaller chunk
\* would have fitted in what was left of the budget.
C2_Witness_LaterChunkWouldFit ==
    /\ pc = "built"
    /\ \E j \in (i + 1)..Len(context_chunks) :
          total_chars
            + Len(ChunkContent(j, context_chunks[j], is_hindi_query(language)))
            <= 3500

\* what C3 expects of one included chunk: at most 800 characters of the
\* original text, followed by "..." exactly when the original was longer
C3_ExpectedBody(text) ==
    IF Len(text) > 800
    THEN SubSeq(text, 1, 800) \o <<".", ".", ".">>
    ELSE text

RECURSIVE C3_ExpectedContext(_, _, _)
C3_ExpectedContext(chunks, k, hindi) ==
    IF k = 0 THEN <<>>
    ELSE C3_ExpectedContext(chunks, k - 1, hindi)
           \o ContextLabel(k, hindi) \o C3_ExpectedBody(chunks[k].text)
           \o <<"\n", "\n">>

\* C3: every chunk included in the context appears as its first 800
\* characters at most, with the marker "..." present iff the original text was
\* longer than 800 (a 900-character chunk: its first 800 characters + marker).
C3_TruncationRule ==
    \E k \in 0..i :
       context_text =
         C3_ExpectedContext(context_chunks, k, is_hindi_query(language))

\* C3 witness: a 900-character chunk and an 800-character chunk are both in
\* the context, the first cut to 800 + marker, the second whole.
C3_Witness_TruncatedIncluded ==
    /\ pc = "built"
    /\ Len(context_chunks) >= 2
    /\ Len(context_chunks[1].text) = 900
    /\ Len(context_chunks[2].text) = 800
    /\ total_chars = (11 + 803 + 2) + (11 + 800 + 2)

-----------------------------------------------------------------------------
(* SpecFormat: the two formatters applied to bounded retrieval results *)

FormatMetadata ==
    [chapter |-> "Unknown", section |-> "Light", page_num |-> 12,
     grade |-> 6, subject |-> "science", language |-> "english"]

RetrievedChunk(k, text, distance) ==
    [chunk_id |-> ChunkId(k), text |-> text,
     metadata |-> FormatMetadata, distance |-> distance]

\* chapter and section as add_chunks stores them (vector_store lines 32-41:
\* both are 'Unknown' when the ingested chunk has none) and as the ingestion
\* fills them: a chapter title, the section 'General', a section title
FormatMetadatas ==
    { [FormatMetadata EXCEPT !.chapter = ch, !.section = sec] :
        ch \in {"Unknown", "Motion"}, sec \in {"General", "Unknown", "Light"} }

\* texts around the excerpt length, with and without white space at the ends
\* of their first 150 characters
FormatTexts ==
    { <<>>,
      <<"a", "b", " ", "c">>,
      MkText(150),
      MkText(151),
      MkText(400),
      <<" ">> \o MkText(10),
      MkText(10) \o <<"\n">>,
      <<" ", "\t">> \o MkText(200),
      MkText(149) \o <<" ">> \o MkText(20),
      MkText(150) \o <<" ">> \o MkText(20),
      <<" ", "\n">> }

FormatDistances == {0, 250, 1000, 1500, 2000}

\* results in any order: every distance list over FormatDistances
FormatDistanceLists == SeqsUpTo(FormatDistances, MaxRetrieved)

FormatChunkLists ==
    \* one chunk, every text
    { <<RetrievedChunk(1, t, 500)>> : t \in FormatTexts }
    \* two chunks at neighbouring distances, over the whole grid
    \cup { <<RetrievedChunk(1, MkText(5), d), RetrievedChunk(2, MkText(5), d + 1)>> :
             d \in 0..(MaxDistance - 1) }
    \* up to MaxRetrieved chunks, in any order of distance, ties included
    \cup { [k \in 1..Len(ds) |-> RetrievedChunk(k, MkText(5), ds[k])] :
             ds \in FormatDistanceLists }
    \* one or two chunks, every chapter and section
    \cup { [k \in 1..Len(ms) |->
               [RetrievedChunk(k, MkText(5), 500) EXCEPT !.metadata = ms[k]]] :
             ms \in SeqsUpTo(FormatMetadatas, 2) \ {<<>>} }

InitFormat ==
    /\ pc = "api_format_citations"
    /\ payload = None
    /\ request = [query |-> <<"l", "i", "g", "h", "t", "?">>, grade |-> 6,
                  subject |-> "science", language |-> "english", top_k |-> 3]
    /\ retrieved_chunks \in FormatChunkLists
    /\ adjusted_top_k = 3
    /\ citations = <<>>
    /\ source_chunks = <<>>
    /\ responses = <<>>
    /\ response_language = "english"
    /\ search_query = request.query
    /\ query_embedding = None
    /\ where_filter = None
    /\ answer = <<>>
    /\ PromptIdle
    /\ AdapterIdle
    /\ ServicesUp
    /\ collection = {}
    /\ rebuild = NotRunning
    /\ parked = <<>>
    /\ calls = NoCalls

NextFormat == ApiFormatCitations \/ ApiFormatSourceChunks

SpecFormat == InitFormat /\ [][NextFormat]_vars

-----------------------------------------------------------------------------
(* Claims about the citation formatter (SpecFormat) *)

\* format_citations has returned / format_source_chunks has returned
CitationsFormatted == pc \in {"api_format_source_chunks", "api_respond", "responded"}

SourceChunksFormatted == pc \in {"api_respond", "responded"}

\* position of the chunk with this id in the retrieval result
RetrievedIndex(chunk_id) ==
    CHOOSE k \in 1..Len(retrieved_chunks) : retrieved_chunks[k].chunk_id = chunk_id

\* C4: format_citations returns one citation per retrieved chunk, with ids
\* exactly 1..n in output order, relevance non-increasing along the output, and
\* citations of equal relevance in their original retrieval order.
C4_CitationsRanked ==
    CitationsFormatted =>
      /\ Len(citations) = Len(retrieved_chunks)
      /\ {citations[k].chunk_id : k \in 1..Len(citations)}
           = {retrieved_chunks[k].chunk_id : k \in 1..Len(retrieved_chunks)}
      /\ \A k \in 1..Len(citations) : citations[k].id = k
      /\ \A k \in 1..(Len(citations) - 1) :
            citations[k].relevance >= citations[k + 1].relevance
      /\ \A k, m \in 1..Len(citations) :
            (k < m /\ citations[k].relevance = citations[m].relevance)
              => RetrievedIndex(citations[k].chunk_id)
                   < RetrievedIndex(citations[m].chunk_id)

\* C4 witness: a result that was not in relevance order and holds a tie.
C4_Witness_ReorderedWithTie ==
    /\ CitationsFormatted
    /\ Len(citations) = 3
    /\ citations[1].chunk_id = ChunkId(2)
    /\ citations[2].chunk_id = ChunkId(3)
    /\ citations[3].chunk_id = ChunkId(1)
    /\ citations[1].relevance = citations[2].relevance
    /\ citations[2].relevance > citations[3].relevance

\* the text of the chunk a citation was made from
CitedText(c) == retrieved_chunks[RetrievedIndex(c.chunk_id)].text

\* the metadata of the chunk a citation was made from
CitedMetadata(c) == retrieved_chunks[RetrievedIndex(c.chunk_id)].metadata

\* C26: citation chapter fallback.  A citation's chapter is the section's
\* value when the chunk's chapter metadata is the sentinel "Unknown" and its
\* section is informative (neither "General" nor the ingestion default
\* "Unknown"); in every other case it is the chunk's own chapter metadata.
C26_ChapterFallback ==
    CitationsFormatted =>
      \A k \in 1..Len(citations) :
         LET metadata == CitedMetadata(citations[k])
         IN  citations[k].chapter =
               IF /\ metadata.chapter = "Unknown"
                  /\ metadata.section \notin {"General", "Unknown"}
               THEN metadata.section
               ELSE metadata.chapter

\* C26 witness: two chunks without a chapter, one with an informative
\* section and one with the section 'General': the first citation has the
\* section as its chapter, the second keeps the chapter "Unknown".
C26_Witness_FallbackAndSentinel ==
    /\ CitationsFormatted
    /\ Len(citations) = 2
    /\ CitedMetadata(citations[1]).chapter = "Unknown"
    /\ CitedMetadata(citations[1]).section = "Light"
    /\ citations[1].chapter = "Light"
    /\ CitedMetadata(citations[2]).chapter = "Unknown"
    /\ CitedMetadata(citations[2]).section = "General"
    /\ citations[2].chapter = "Unknown"

C6_IsStripped(core, s) ==
    \E a \in 1..(Len(s) + 1) :
      \E b \in (a - 1)..Len(s) :
        /\ core = SubSeq(s, a, b)
        /\ \A k \in 1..(a - 1) : s[k] \in {" ", "\n", "\t"}
        /\ \A k \in (b + 1)..Len(s) : s[k] \in {" ", "\n", "\t"}
        /\ a <= b => (s[a] \notin {" ", "\n", "\t"} /\ s[b] \notin {" ", "\n", "\t"})

DistanceOf(chunk_id) == retrieved_chunks[RetrievedIndex(chunk_id)].distance

\* C7: for every distance d of the grid 0..2000 (thousandths), the relevance
\* in citations and in full-chunk views is 1 - d exactly (in thousandths,
\* 1000 - d), strictly decreasing in d, and negative above d = 1, not clamped.
C7_RelevanceOfDistance ==
    LET Ok(views) ==
          /\ \A k \in 1..Len(views) :
                LET d == DistanceOf(views[k].chunk_id)
                IN  /\ d \in 0..2000
                    /\ views[k].relevance + d = 1000
                    /\ d > 1000 => views[k].relevance < 0
          /\ \A k, m \in 1..Len(views) :
                DistanceOf(views[k].chunk_id) < DistanceOf(views[m].chunk_id)
                  => views[k].relevance > views[m].relevance
    IN  /\ CitationsFormatted => Ok(citations)
        /\ SourceChunksFormatted => Ok(source_chunks)

\* C7 witness: two chunks at distances 1.999 and 2.000, relevances -0.999 and -1.
C7_Witness_NegativeRelevance ==
    /\ SourceChunksFormatted
    /\ CitationsFormatted
    /\ Len(citations) = 2
    /\ DistanceOf(citations[1].chunk_id) = 1999
    /\ citations[1].relevance = -999
    /\ source_chunks[2].relevance = -1000

-----------------------------------------------------------------------------
(* SpecAdapter: the two entry points of OPEAMistralService called directly *)

\* the queries of the model: one in ASCII, one in Devanagari
AsciiQuery ==
    <<"w", "h", "a", "t", " ", "i", "s", " ", "l", "i", "g", "h", "t", "?">>

HindiQuery ==
    <<"u092A", "u094D", "u0930", "u0915", "u093E", "u0936", " ", "u0915",
      "u094D", "u092F", "u093E", " ", "u0939", "u0948", "?">>

Queries == {AsciiQuery, HindiQuery}

AdapterMetadata ==
    [chapter |-> "Light", section |-> "Shadows", page_num |-> 12,
     grade |-> 6, subject |-> "science", language |-> "english"]

\* context chunks a caller can pass: a short one, one over the per-chunk
\* ceiling, and a dict without the 'text' key
AdapterChunks ==
    { [text |-> MkText(40), metadata |-> AdapterMetadata],
      [text |-> MkText(801), metadata |-> AdapterMetadata],
      [metadata |-> AdapterMetadata] }

\* longest chunk list handed to an entry point in SpecAdapter
MaxAdapterChunks == 2

InitAdapter ==
    /\ pc = "build"
    /\ entry \in {"generate_answer", "stream_answer"}
    /\ query \in Queries
    /\ grade_arg = 6
    /\ subject_arg = "science"
    /\ language \in {"english", "hindi"}
    \* stream_answer has no hindi_terms parameter
    /\ hindi_terms \in IF entry = "generate_answer" /\ language = "hindi"
                        THEN {<<>>, english_to_hindi}
                        ELSE {<<>>}
    /\ context_chunks \in SeqsUpTo(AdapterChunks, MaxAdapterChunks)
    /\ i = 0
    /\ context_text = <<>>
    /\ total_chars = 0
    /\ prompt = None
    /\ model_request = None
    /\ model_response = None
    /\ result = None
    /\ fault = "none"
    /\ OrchestratorIdle
    /\ ApiIdle
    /\ ServicesUp
    /\ collection = {}
    /\ rebuild = NotRunning
    /\ parked = <<>>

NextAdapter ==
    \/ BuildStep
    \/ BuildExhausted
    \/ BuildPrompt
    \/ LlmModelCall
    \/ LlmReadResult
    \/ StreamModelCall
    \/ StreamYield
    \/ StreamEnd

SpecAdapter == InitAdapter /\ [][NextAdapter]_vars

-----------------------------------------------------------------------------
(* Claims about the generation adapter (SpecAdapter) *)

\* C8: fault containment.  For both entry points and every failure met
\* while serving the call (prompt construction, the model call, reading its
\* result), no raw exception leaves the adapter: the call has returned a
\* structured result whose success is false.
C8_FaultContained ==
    fault # "none" => (pc = "llm_returned" /\ result.success = FALSE)

-----------------------------------------------------------------------------
(* Spec: one query request served by api_server.process_query *)

\* largest top_k a request of the model asks for
MaxTopK == 6

\* the JSON bodies a client posts: query, grade and subject are required,
\* language and top_k may be left out, and language may be null
Payloads ==
    UNION { { [query |-> q, grade |-> g, subject |-> subj, language |-> lang,
               top_k |-> k] :
                lang \in {"english", "hindi", None}, k \in {1, MaxTopK} }
            \cup { [query |-> q, grade |-> g, subject |-> subj,
                    language |-> lang] :
                     lang \in {"english", "hindi", None} }
            \cup { [query |-> q, grade |-> g, subject |-> subj, top_k |-> k] :
                     k \in {1, MaxTopK} }
            \cup { [query |-> q, grade |-> g, subject |-> subj] } :
            q \in Queries, g \in {6, 7}, subj \in {"science", "mathematics"} }

\* the validated requests the handler is called with
Requests == { QueryRequest(p) : p \in Payloads }

\* the request arrives; startup_event has built the orchestrator with its
\* LLM service, or the handles are still unset (line 111)
Init ==
    /\ pc = "api_entry"
    /\ payload \in Payloads
    /\ request = QueryRequest(payload)
    /\ ServicesUp \/ ServicesDown
    /\ collection \in { StoreAt(d) : d \in DistanceAssignments }
    /\ rebuild = NotRunning
    /\ parked = <<>>
    /\ adjusted_top_k = 0
    /\ citations = <<>>
    /\ source_chunks = <<>>
    /\ responses = <<>>
    /\ calls = NoCalls
    /\ PromptIdle
    /\ AdapterIdle
    /\ OrchestratorIdle

Next ==
    \/ ApiEntry
    \/ OrcCanonicalize
    \/ OrcEmbed
    \/ OrcSearch
    \/ OrcGenerate
    \/ BuildStep
    \/ BuildExhausted
    \/ BuildPrompt
    \/ LlmModelCall
    \/ LlmReadResult
    \/ OrcAfterGenerate
    \/ ApiFormatCitations
    \/ ApiFormatSourceChunks
    \/ ApiRespond
    \/ ApiError

Spec == Init /\ [][Next]_vars

-----------------------------------------------------------------------------
(* Claims about the pipeline (Spec) *)

\* the request has its terminal result
Terminal == pc \in {"responded", "failed"}

\* the generation collaborator failed while serving the request
GenerationFailed == fault \in {"model call", "reading result"}

\* C5: the full-chunk view is parallel to and identically ordered with the
\* citation list: both lists have one entry per retrieved chunk, chunks that
\* the budget kept out of the context included, and at every position the
\* source chunk and the citation have the same chunk_id and relevance.
C5_ParallelViews ==
    SourceChunksFormatted =>
        /\ Len(citations) = Len(retrieved_chunks)
        /\ Len(source_chunks) = Len(retrieved_chunks)
        /\ \A j \in 1..Len(retrieved_chunks) :
              \E k \in 1..Len(citations) :
                 citations[k].chunk_id = retrieved_chunks[j].chunk_id
        /\ \A k \in 1..Len(citations) :
              /\ source_chunks[k].chunk_id = citations[k].chunk_id
              /\ source_chunks[k].relevance = citations[k].relevance

\* C5 witness: a response with six citations and six source chunks of which
\* only four went into the context, the fifth having passed the budget.
C5_Witness_DroppedChunksCited ==
    /\ pc = "responded"
    /\ Len(retrieved_chunks) = 6
    /\ Len(source_chunks) = 6
    /\ i = 5
    /\ context_text = PrefixContext(context_chunks, 4, is_hindi_query(language))
    /\ source_chunks[1].relevance > source_chunks[6].relevance

\* the response body, or its metadata, has a success field that is false
CarriesFailureFlag(body) ==
    \/ "success" \in DOMAIN body /\ ~body.success
    \/ "success" \in DOMAIN body.metadata /\ ~body.metadata.success

\* C9 as stated: when generation fails the pipeline propagates no fault, the
\* query completes with the degraded-answer text as its answer, and the
\* response delivered to the caller carries a success = false indication.
C9_DegradedWithFailureFlag ==
    (GenerationFailed /\ Terminal) =>
        /\ pc = "responded"
        /\ responses[1].body.answer = DegradedAnswer
        /\ CarriesFailureFlag(responses[1].body)

\* C9 amended: when generation fails the pipeline propagates no fault and
\* the query completes with one ordinary (status 200) response whose answer
\* is the degraded-answer text; success = false is in the adapter's result,
\* and the response delivered to the caller has no success field.
C9_DegradedAnswerDelivered ==
    GenerationFailed =>
        /\ pc \notin {"raised", "failed"}
        /\ result.success = FALSE
        /\ result.answer = DegradedAnswer
        /\ Terminal =>
              /\ Len(responses) = 1
              /\ responses[1].status = 200
              /\ responses[1].body.answer = DegradedAnswer
              /\ "success" \notin DOMAIN responses[1].body
              /\ "success" \notin DOMAIN responses[1].body.metadata

\* C9 witness: the model call raised and the request was answered with the
\* degraded text.
C9_Witness_DegradedResponse ==
    /\ pc = "responded"
    /\ fault = "model call"
    /\ responses[1].status = 200
    /\ answer = DegradedAnswer

\* C10: no retries.  Each external collaborator (embedding, vector search,
\* generation) is invoked at most once per request; a failure of one of them
\* ends the request with exactly one terminal result, an error result or a
\* degraded response, and no collaborator is invoked after it.
C10_NoRetries ==
    /\ calls.embedding <= 1
    /\ calls.search <= 1
    /\ calls.generation <= 1
    /\ Len(responses) <= 1
    /\ Terminal <=> Len(responses) = 1
    /\ fault = "embedding" => calls.search = 0 /\ calls.generation = 0
    /\ fault = "vector search" => calls.generation = 0
    /\ (Terminal /\ fault \in {"embedding", "vector search"}) =>
          pc = "failed" /\ responses[1].status = 500
    /\ (Terminal /\ GenerationFailed) =>
          pc = "responded" /\ responses[1].status = 200

\* C10 witness: the result of the model could not be read; the request ended
\* with one response after one invocation of each collaborator.
C10_Witness_OneResultAfterFailure ==
    /\ Terminal
    /\ fault = "reading result"
    /\ calls = [embedding |-> 1, search |-> 1, generation |-> 1]
    /\ Len(responses) = 1

\* the place of a position of the request in the order of the stages:
\* canonicalization, embedding, vector search, context chunks, context
\* assembly, prompt, generation, the adapter's and the orchestrator's
\* sanitization, citation formatting, response; then the error path
StageRank(p) ==
    CASE p = "api_entry"                  -> 0
      [] p = "orc_canonicalize"           -> 1
      [] p = "orc_embed"                  -> 2
      [] p = "orc_search"                 -> 3
      [] p = "orc_generate"               -> 4
      [] p = "build"                      -> 5
      [] p = "built"                      -> 6
      [] p = "llm_call"                   -> 7
      [] p = "llm_read"                   -> 8
      [] p = "llm_returned"               -> 9
      [] p = "api_format_citations"       -> 10
      [] p = "api_format_source_chunks"   -> 11
      [] p = "api_respond"                -> 12
      [] p = "responded"                  -> 13
      [] p = "raised"                     -> 14
      [] p = "failed"                     -> 15

\* C27: within one query the stages run strictly forward and each at most
\* once.  Every step takes the request to a later stage (the loop of the
\* context assembly alone stays where it is, one chunk further); the
\* embedding is invoked once, from the canonicalized query; the vector search
\* once, after the embedding; generation once, after the prompt is built from
\* a retrieval that did not fail; the retrieval result is written by the
\* search only, and the citation formatter, which runs after the answer is
\* sanitized, makes one citation of each retrieved chunk, the chunks left
\* out of the context included.
C27_StagesForward ==
    [][ /\ \/ StageRank(pc') > StageRank(pc)
           \/ pc = "build" /\ pc' = "build" /\ i' = i + 1
        /\ calls'.embedding # calls.embedding =>
              pc = "orc_embed" /\ calls.embedding = 0
        /\ calls'.search # calls.search =>
              /\ pc = "orc_search"
              /\ calls.search = 0
              /\ calls.embedding = 1
              /\ fault = "none"
        /\ calls'.generation # calls.generation =>
              /\ pc = "llm_call"
              /\ calls.generation = 0
              /\ calls.search = 1
              /\ fault = "none"
        /\ retrieved_chunks' # retrieved_chunks => pc = "orc_search"
        /\ citations' # citations =>
              /\ pc = "api_format_citations"
              /\ Len(citations') = Len(retrieved_chunks)
              /\ \A j \in 1..Len(retrieved_chunks) :
                    \E k \in 1..Len(citations') :
                       citations'[k].chunk_id = retrieved_chunks[j].chunk_id
      ]_vars

\* C27 witness: a request served through every stage, one invocation of each
\* collaborator, whose context took four of the six retrieved chunks and
\* whose response cites all six.
C27_Witness_AllStagesOnce ==
    /\ pc = "responded"
    /\ fault = "none"
    /\ calls = [embedding |-> 1, search |-> 1, generation |-> 1]
    /\ Len(retrieved_chunks) = 6
    /\ i = 5
    /\ context_text = PrefixContext(context_chunks, 4, is_hindi_query(language))
    /\ Len(citations) = 6
    /\ responses[1].status = 200

\* C30: the tokens-used value in the metadata of a query response equals the
\* token usage count of the generation result of the same query: the
\* collaborator's completion token count when generation succeeded, 0 when
\* it failed.
C30_TokensUsedOfGeneration ==
    (pc = "responded" /\ calls.generation = 1) =>
        /\ responses[1].body.metadata.tokens_used = result.tokens_used
        /\ result.tokens_used =
             IF result.success
             THEN model_response.usage.completion_tokens
             ELSE 0

\* the language the client asked for: the language field of the body,
\* "english" when the field is left out or null
RequestedLanguage ==
    IF "language" \in DOMAIN payload /\ payload.language # None
    THEN payload.language
    ELSE "english"

\* the prompt envelope of the request exists
PromptBuilt ==
    /\ pc \in {"llm_call", "llm_read", "llm_returned",
               "api_format_citations", "api_format_source_chunks",
               "api_respond", "responded"}
    /\ llm_service # None

\* C11: the response language is a function of the request's language
\* parameter alone ("english" when it is left out), never of the query text.
\* Whatever the query text is, the instruction template of the prompt (its
\* system instruction, section headers and answer instruction) and the
\* language reported in the response metadata are those of the requested
\* language, so two requests with the same language parameter and different
\* query texts get the same template and the same metadata language.
C11_LanguageFromRequestOnly ==
    /\ PromptBuilt =>
         /\ prompt.system_instruction.template = RequestedLanguage
         /\ prompt.answer_instruction =
              IF RequestedLanguage = "hindi" THEN HindiAnswerInstruction
              ELSE EnglishAnswerInstruction
         /\ prompt.question_header =
              IF RequestedLanguage = "hindi" THEN HindiQuestionHeader
              ELSE EnglishQuestionHeader
         /\ prompt.context_header =
              IF RequestedLanguage = "hindi" THEN HindiContextHeader
              ELSE EnglishContextHeader
    /\ pc = "responded" =>
         responses[1].body.metadata.language = RequestedLanguage

\* a Hindi-script query sent without a language parameter is answered from
\* the English template and reported as english
C11_Witness_HindiTextEnglishAnswer ==
    /\ pc = "responded"
    /\ llm_service # None
    /\ "language" \notin DOMAIN payload
    /\ request.query = HindiQuery
    /\ responses[1].body.metadata.query_language = "hindi"
    /\ responses[1].body.metadata.language = "english"
    /\ prompt.system_instruction.template = "english"

\* the language conditions of the filter the search sent to the store
LanguageConditions ==
    { Conditions(where_filter)[k].eq :
        k \in { j \in 1..Len(Conditions(where_filter)) :
                  Conditions(where_filter)[j].field = "language" } }

\* C12: the retrieval corpus is always English.  Whatever the response
\* language of the request, the language constraint the vector search gets
\* is "english": the filter sent to the store has one language condition,
\* language = "english", and every retrieved chunk is indexed as english.
C12_SearchLanguageEnglish ==
    calls.search >= 1 =>
        /\ LanguageConditions = {"english"}
        /\ \A k \in 1..Len(retrieved_chunks) :
              retrieved_chunks[k].metadata.language = "english"

\* a request answered in Hindi has searched with language = "english" and
\* got English chunks
C12_Witness_HindiResponseEnglishSearch ==
    /\ calls.search >= 1
    /\ response_language = "hindi"
    /\ LanguageConditions = {"english"}
    /\ retrieved_chunks # <<>>

-----------------------------------------------------------------------------
(* SpecSearch: OPEAVectorStore.search called on every bounded collection,
   with every combination of given, None and empty arguments *)

\* largest top_k of a search of the model
MaxSearchTopK == 3

\* an embedded chunk as the indexing pipeline hands it to add_chunks: a
\* dictionary with no chapter key
EmbeddedChunk(k, n, d, g, subj, lang) ==
    [chunk_id |-> ChunkId(k), text |-> MkText(n), embedding |-> d,
     grade |-> g, subject |-> subj, language |-> lang, section |-> "Light",
     page_num |-> k, chunk_index |-> k, token_count |-> k]

\* the embedded chunks of the model: a chunk of another grade that is the
\* nearest of the english ones, two chunks at the same distance, chunks
\* indexed as "Hindi" and as "hindi" (the second with neither section nor
\* page and with a nested metadata dictionary), one of another subject
EmbeddedPool ==
    { EmbeddedChunk(1, 5, 100, 7, "science", "english"),
      EmbeddedChunk(2, 6, 200, 6, "science", "english"),
      EmbeddedChunk(3, 7, 200, 6, "science", "english"),
      EmbeddedChunk(4, 8, 50, 6, "science", "Hindi"),
      EmbeddedChunk(5, 9, 150, 6, "mathematics", "english"),
      EmbeddedChunk(6, 10, 400, 6, "science", "english"),
      [chunk_id |-> ChunkId(7), text |-> MkText(11), embedding |-> 20,
       grade |-> 6, subject |-> "science", language |-> "hindi",
       chunk_index |-> 7, token_count |-> 7,
       metadata |-> [source |-> "ocr"]] }

\* most calls of search on one store
MaxSearches == 2

\* chunks a collection of the model is made of, as add_chunks stored them
\* and at their distance from the query embedding
SearchPool == { StoredChunk(chunk) : chunk \in EmbeddedPool }

\* the chunk ids a collection holds
HeldIds(store) == { c.chunk_id : c \in store }

\* lines 51-56: the collection after collection.add has stored a batch.  A
\* chunk whose id the collection holds is left as it is held
AddedTo(store, embedded_chunks) ==
    store \cup { StoredChunk(chunk) :
                   chunk \in { e \in embedded_chunks :
                                 e.chunk_id \notin HeldIds(store) } }

\* the batches a caller hands to add_chunks for a collection: one embedded
\* chunk the collection does not hold, or all of those it does not hold
Batches(store) ==
    LET missing == { chunk \in EmbeddedPool :
                       chunk.chunk_id \notin HeldIds(store) }
    IN  ({ {chunk} : chunk \in missing } \cup {missing}) \ {{}}

\* lines 22-58: one call of add_chunks, at any time between two calls of the
\* store.  Either collection.add stores the batch, or it raises: add_chunks
\* has no handler, the exception leaves it and nothing is stored.  What an
\* earlier search built and returned is not touched.  persist (lines
\* 104-107) only prints.
AddChunks ==
    /\ pc \in {"search", "searched", "raised"}
    /\ \E embedded_chunks \in Batches(collection) :
          \/ /\ collection' = AddedTo(collection, embedded_chunks)
             /\ pc' = "search"
             /\ fault' = "none"
          \/ /\ fault' = "collection add"
             /\ pc' = "raised"
             /\ UNCHANGED collection
    /\ UNCHANGED <<entry, query, grade_arg, subject_arg, hindi_terms, prompt,
                   model_request, model_response, result>>
    /\ UNCHANGED <<rag_orchestrator, vector_store, lifespan, llm_service,
                   parked, rebuild>>
    /\ UNCHANGED <<promptVars, orcVars, apiVars, calls>>

-----------------------------------------------------------------------------
(* The rebuild script: main of scripts/rebuild_vector_store_multilingual.py,
   a process of its own on the directory of the store.  Its copy of the
   directory to the backup path is outside the state of the model *)

\* line 110: the line typed at the prompt, stripped; nothing typed is "1"
TypedChoice(line) ==
    LET stripped == Strip(line)
    IN  IF stripped = <<>> THEN <<"1">> ELSE stripped

\* lines 112-116: the embedding model of each choice
model_map ==
    [choice \in {<<"1">>, <<"2">>, <<"3">>} |->
        IF choice = <<"1">> THEN "intfloat/multilingual-e5-large"
        ELSE IF choice = <<"2">>
        THEN "sentence-transformers/paraphrase-multilingual-mpnet-base-v2"
        ELSE "BAAI/bge-m3"]

\* line 118: model_map.get(choice, model_map["1"])
SelectedModel(choice) ==
    IF choice \in DOMAIN model_map THEN model_map[choice]
    ELSE model_map[<<"1">>]

\* lines typed at the prompt: nothing, a blank, each choice, a choice with
\* white space around it and a choice the menu has not
Choices ==
    { <<>>, <<" ">>, <<"1">>, <<"2">>, <<"3">>, <<" ", "2">>, <<"3", "\n">>,
      <<"9">> }

\* the distance from the query embedding of the search of a chunk embedded
\* again with a model (lines 55-60): another distance than the one its file
\* held, in another order
Encode(embedding_model, chunk) ==
    IF embedding_model = "intfloat/multilingual-e5-large"
    THEN 500 - chunk.embedding
    ELSE IF embedding_model = "BAAI/bge-m3"
    THEN 2 * chunk.embedding
    ELSE chunk.embedding + 30 * (chunk.chunk_index % 3)

\* lines 22-32 and 63-64: a chunk of an embedding file with its old
\* embedding removed and the one of the selected model in its place
ReEmbedded(embedding_model, chunk) ==
    [chunk EXCEPT !.embedding = Encode(embedding_model, chunk)]

\* the embedded chunk of an id
PoolChunk(k) == CHOOSE chunk \in EmbeddedPool : chunk.chunk_id = ChunkId(k)

\* the chunks the two embedding files of the rebuild hold, in the order of
\* the files (lines 123-127): none, three, or the seven of the pool
EmbeddingFiles ==
    { <<>>,
      <<PoolChunk(2), PoolChunk(3), PoolChunk(4)>>,
      [k \in 1..7 |-> PoolChunk(k)] }

\* line 139
batch_size == 100

\* positions of the script at which it is not running
Ended == {"idle", "returned", "done", "raised"}

\* the script has ended at a position: its locals are no more
EndedAt(position) == [NotRunning EXCEPT !.pc = position]

\* lines 69-101: the script starts.  With an embedding file missing it
\* returns (lines 84-90).  Else it copies the directory to the backup and
\* removes it with shutil.rmtree: the collection holds nothing.  An
\* exception before the removal leaves the collection as it was.
RebuildRemove ==
    /\ rebuild.pc \in Ended
    /\ \/ /\ rebuild' = EndedAt("returned")
          /\ UNCHANGED collection
       \/ /\ collection' = {}
          /\ rebuild' = [NotRunning EXCEPT !.pc = "prompt"]
       \/ /\ rebuild' = EndedAt("raised")
          /\ UNCHANGED collection
    /\ UNCHANGED <<rag_orchestrator, vector_store, lifespan, llm_service,
                   parked>>
    /\ UNCHANGED <<pc, promptVars, adapterVars, orcVars, apiVars, calls>>

\* lines 110-136: the operator types a choice, the chunks of the files are
\* loaded without their embeddings and embedded with the selected model,
\* and a store is opened on the path.  An exception ends the script with
\* the directory removed.
RebuildEmbed ==
    /\ rebuild.pc = "prompt"
    /\ \/ \E line \in Choices, file_chunks \in EmbeddingFiles :
             LET embedding_model == SelectedModel(TypedChoice(line))
             IN  rebuild' =
                     [pc |-> "adding",
                      all_chunks |->
                          [k \in 1..Len(file_chunks) |->
                              ReEmbedded(embedding_model, file_chunks[k])],
                      embedding_model |-> embedding_model,
                      i |-> 0]
       \/ rebuild' = EndedAt("raised")
    /\ UNCHANGED <<rag_orchestrator, vector_store, lifespan, llm_service,
                   collection, parked>>
    /\ UNCHANGED <<pc, promptVars, adapterVars, orcVars, apiVars, calls>>

\* lines 139-142: one turn of the loop: add_chunks on the next batch_size
\* chunks.  An exception of add_chunks ends the script; what the turns
\* before it stored stays.
RebuildAddBatch ==
    /\ rebuild.pc = "adding"
    /\ rebuild.i < Len(rebuild.all_chunks)
    /\ LET batch == SubSeq(rebuild.all_chunks, rebuild.i + 1,
                           Min(rebuild.i + batch_size,
                               Len(rebuild.all_chunks)))
       IN  \/ /\ collection' =
                     AddedTo(collection,
                             { batch[k] : k \in 1..Len(batch) })
              /\ rebuild' = [rebuild EXCEPT !.i = @ + batch_size]
           \/ /\ rebuild' = EndedAt("raised")
              /\ UNCHANGED collection
    /\ UNCHANGED <<rag_orchestrator, vector_store, lifespan, llm_service,
                   parked>>
    /\ UNCHANGED <<pc, promptVars, adapterVars, orcVars, apiVars, calls>>

\* lines 145-165: after the loop persist prints, collection.count() is read
\* and the script reports.  An exception of count ends the script with the
\* chunks stored.
RebuildVerify ==
    /\ rebuild.pc = "adding"
    /\ rebuild.i >= Len(rebuild.all_chunks)
    /\ \/ rebuild' = EndedAt("done")
       \/ rebuild' = EndedAt("raised")
    /\ UNCHANGED <<rag_orchestrator, vector_store, lifespan, llm_service,
                   collection, parked>>
    /\ UNCHANGED <<pc, promptVars, adapterVars, orcVars, apiVars, calls>>

\* the language arguments of a search: the stored literals, other casings
\* of them, and a language that is neither
SearchLanguages == {"english", "ENGLISH", "hindi", "Hindi", "hINDI", "urdu"}

\* lines 60-102: one call of search.  Each of grade, subject and language
\* is given, None or (the strings) empty; grade_arg is the Optional[int] here
StoreSearch ==
    /\ pc \in {"search", "searched", "raised"}
    /\ calls.search < MaxSearches
    /\ where_filter' =
         WhereFilter(WhereConditions(grade_arg, subject_arg, language))
    /\ \/ /\ retrieved_chunks' \in
                 SearchResults(collection, Conditions(where_filter'),
                               adjusted_top_k)
          /\ pc' = "searched"
          /\ fault' = "none"
       \/ /\ fault' = "vector search"
          /\ pc' = "raised"
          /\ UNCHANGED retrieved_chunks
    /\ calls' = [calls EXCEPT !.search = @ + 1]
    /\ UNCHANGED <<response_language, search_query, query_embedding, answer>>
    /\ UNCHANGED <<entry, query, grade_arg, subject_arg, hindi_terms, prompt,
                   model_request, model_response, result>>
    /\ UNCHANGED <<promptVars, apiVars, serviceVars>>

InitSearch ==
    /\ pc = "search"
    /\ entry = "search"
    /\ collection \in SUBSET SearchPool
    /\ rebuild = NotRunning
    /\ parked = <<>>
    /\ grade_arg \in {NoInt, SomeInt(6), SomeInt(7)}
    /\ subject_arg \in {None, "", "science", "mathematics"}
    /\ language \in SearchLanguages \cup {None, ""}
    /\ adjusted_top_k \in 1..MaxSearchTopK
    /\ query = <<>>
    /\ hindi_terms = <<>>
    /\ prompt = None
    /\ model_request = None
    /\ model_response = None
    /\ result = None
    /\ fault = "none"
    /\ context_chunks = <<>>
    /\ i = 0
    /\ context_text = <<>>
    /\ total_chars = 0
    /\ payload = None
    /\ request = None
    /\ citations = <<>>
    /\ source_chunks = <<>>
    /\ responses = <<>>
    /\ calls = NoCalls
    /\ OrchestratorIdle
    /\ ServicesUp

NextSearch == StoreSearch

SpecSearch == InitSearch /\ [][NextSearch]_vars

-----------------------------------------------------------------------------
(* SpecStore: one store directory over its life.  Searches, calls of
   add_chunks and runs of the rebuild script follow each other in any
   order; the rebuild is run offline, and no call of the store falls
   between the removal of the directory and the end of the script *)

\* a store constructed on any directory; the searches of the behaviour are
\* grade-6 science searches in every language argument
InitStore ==
    /\ InitSearch
    /\ grade_arg = SomeInt(6)
    /\ subject_arg = "science"
    /\ language \in SearchLanguages

NextStore ==
    \/ rebuild.pc \in Ended /\ (StoreSearch \/ AddChunks)
    \/ RebuildRemove
    \/ RebuildEmbed
    \/ RebuildAddBatch
    \/ RebuildVerify

SpecStore == InitStore /\ [][NextStore]_vars

-----------------------------------------------------------------------------
(* SpecConcurrent: two invocations of the query handler in flight at once,
   interleaved at every step.  Each has its own locals; the handles, the
   services behind them and the collection are those of the process *)

\* the locals of the running invocation: the handler's, process_query's,
\* generate_answer's and build_mistral_prompt's
Locals ==
    [pc                |-> pc,
     language          |-> language,
     context_chunks    |-> context_chunks,
     i                 |-> i,
     context_text      |-> context_text,
     total_chars       |-> total_chars,
     entry             |-> entry,
     query             |-> query,
     grade_arg         |-> grade_arg,
     subject_arg       |-> subject_arg,
     hindi_terms       |-> hindi_terms,
     prompt            |-> prompt,
     model_request     |-> model_request,
     model_response    |-> model_response,
     result            |-> result,
     fault             |-> fault,
     response_language |-> response_language,
     search_query      |-> search_query,
     query_embedding   |-> query_embedding,
     where_filter      |-> where_filter,
     retrieved_chunks  |-> retrieved_chunks,
     answer            |-> answer,
     payload           |-> payload,
     request           |-> request,
     adjusted_top_k    |-> adjusted_top_k,
     citations         |-> citations,
     source_chunks     |-> source_chunks,
     responses         |-> responses,
     calls             |-> calls]

\* the locals of an invocation that has been called with the body and has
\* not run yet
NewLocals(body) ==
    [pc                |-> "api_entry",
     language          |-> None,
     context_chunks    |-> <<>>,
     i                 |-> 0,
     context_text      |-> <<>>,
     total_chars       |-> 0,
     entry             |-> None,
     query             |-> <<>>,
     grade_arg         |-> 0,
     subject_arg       |-> None,
     hindi_terms       |-> <<>>,
     prompt            |-> None,
     model_request     |-> None,
     model_response    |-> None,
     result            |-> None,
     fault             |-> "none",
     response_language |-> None,
     search_query      |-> <<>>,
     query_embedding   |-> None,
     where_filter      |-> None,
     retrieved_chunks  |-> <<>>,
     answer            |-> <<>>,
     payload           |-> body,
     request           |-> QueryRequest(body),
     adjusted_top_k    |-> 0,
     citations         |-> <<>>,
     source_chunks     |-> <<>>,
     responses         |-> <<>>,
     calls             |-> NoCalls]

\* an invocation whose response_language is not among its locals: the
\* running one goes on with the value the other one left
Switch_shared_response_language ==
    /\ \E k \in 1..Len(parked) :
          /\ parked' = [parked EXCEPT ![k] = Locals]
          /\ pc' = parked[k].pc
          /\ language' = parked[k].language
          /\ context_chunks' = parked[k].context_chunks
          /\ i' = parked[k].i
          /\ context_text' = parked[k].context_text
          /\ total_chars' = parked[k].total_chars
          /\ entry' = parked[k].entry
          /\ query' = parked[k].query
          /\ grade_arg' = parked[k].grade_arg
          /\ subject_arg' = parked[k].subject_arg
          /\ hindi_terms' = parked[k].hindi_terms
          /\ prompt' = parked[k].prompt
          /\ model_request' = parked[k].model_request
          /\ model_response' = parked[k].model_response
          /\ result' = parked[k].result
          /\ fault' = parked[k].fault
          /\ UNCHANGED response_language
          /\ search_query' = parked[k].search_query
          /\ query_embedding' = parked[k].query_embedding
          /\ where_filter' = parked[k].where_filter
          /\ retrieved_chunks' = parked[k].retrieved_chunks
          /\ answer' = parked[k].answer
          /\ payload' = parked[k].payload
          /\ request' = parked[k].request
          /\ adjusted_top_k' = parked[k].adjusted_top_k
          /\ citations' = parked[k].citations
          /\ source_chunks' = parked[k].source_chunks
          /\ responses' = parked[k].responses
          /\ calls' = parked[k].calls
    /\ UNCHANGED <<rag_orchestrator, vector_store, lifespan, llm_service,
                   collection, rebuild>>

\* api_server lines 272-273: the server leaves the running invocation where
\* it is and goes on with another one
Switch ==
    /\ \E k \in 1..Len(parked) :
          /\ parked' = [parked EXCEPT ![k] = Locals]
          /\ pc' = parked[k].pc
          /\ language' = parked[k].language
          /\ context_chunks' = parked[k].context_chunks
          /\ i' = parked[k].i
          /\ context_text' = parked[k].context_text
          /\ total_chars' = parked[k].total_chars
          /\ entry' = parked[k].entry
          /\ query' = parked[k].query
          /\ grade_arg' = parked[k].grade_arg
          /\ subject_arg' = parked[k].subject_arg
          /\ hindi_terms' = parked[k].hindi_terms
          /\ prompt' = parked[k].prompt
          /\ model_request' = parked[k].model_request
          /\ model_response' = parked[k].model_response
          /\ result' = parked[k].result
          /\ fault' = parked[k].fault
          /\ response_language' = parked[k].response_language
          /\ search_query' = parked[k].search_query
          /\ query_embedding' = parked[k].query_embedding
          /\ where_filter' = parked[k].where_filter
          /\ retrieved_chunks' = parked[k].retrieved_chunks
          /\ answer' = parked[k].answer
          /\ payload' = parked[k].payload
          /\ request' = parked[k].request
          /\ adjusted_top_k' = parked[k].adjusted_top_k
          /\ citations' = parked[k].citations
          /\ source_chunks' = parked[k].source_chunks
          /\ responses' = parked[k].responses
          /\ calls' = parked[k].calls
    /\ UNCHANGED <<rag_orchestrator, vector_store, lifespan, llm_service,
                   collection, rebuild>>

\* the bodies of the concurrent requests: the same question asked for a
\* Hindi and for an English answer, for two grades
ConcurrentPayloads ==
    { [query |-> AsciiQuery, grade |-> 6, subject |-> "science",
       language |-> "hindi", top_k |-> MaxTopK],
      [query |-> AsciiQuery, grade |-> 7, subject |-> "science"] }

\* two requests have arrived and the handler has been called for both
InitConcurrent ==
    /\ pc = "api_entry"
    /\ payload \in ConcurrentPayloads
    /\ request = QueryRequest(payload)
    /\ ServicesUp
    /\ collection = SearchPool
    /\ rebuild = NotRunning
    /\ parked \in { <<NewLocals(body)>> : body \in ConcurrentPayloads \ {payload} }
    /\ adjusted_top_k = 0
    /\ citations = <<>>
    /\ source_chunks = <<>>
    /\ responses = <<>>
    /\ calls = NoCalls
    /\ PromptIdle
    /\ AdapterIdle
    /\ OrchestratorIdle

NextConcurrent ==
    \/ Switch
    \/ ApiEntry
    \/ OrcCanonicalize
    \/ OrcEmbed
    \/ OrcSearch
    \/ OrcGenerate
    \/ BuildStep
    \/ BuildExhausted
    \/ BuildPrompt
    \/ LlmModelCall
    \/ LlmReadResult
    \/ OrcAfterGenerate
    \/ ApiFormatCitations
    \/ ApiFormatSourceChunks
    \/ ApiRespond
    \/ ApiError

SpecConcurrent == InitConcurrent /\ [][NextConcurrent]_vars

-----------------------------------------------------------------------------
(* Claims about the retrieval gateway (SpecSearch) *)

\* the chunks come in ascending distance, and no more than top_k of them
NearestFirst ==
    /\ Len(retrieved_chunks) <= adjusted_top_k
    /\ \A k \in 1..(Len(retrieved_chunks) - 1) :
          retrieved_chunks[k].distance <= retrieved_chunks[k + 1].distance

\* the search is constrained by grade, subject and language
AllSupplied ==
    /\ grade_arg # NoInt
    /\ subject_arg \notin {None, ""}
    /\ language \notin {None, ""}

\* the literal the corpus stores for a language: "Hindi" for any casing of
\* hindi, "english" for any casing of english
StoredLiteral(lang) ==
    IF Lower(lang) = "hindi" THEN "Hindi"
    ELSE IF Lower(lang) = "english" THEN "english"
    ELSE lang

\* C13 as stated: a search constrained by grade, subject and language
\* returns only chunks whose stored grade, subject and language equal the
\* supplied values, at most top_k of them, in ascending distance order.
C13_ReturnedEqualSupplied ==
    (pc = "searched" /\ AllSupplied) =>
        /\ \A k \in 1..Len(retrieved_chunks) :
              /\ retrieved_chunks[k].metadata.grade = grade_arg[1]
              /\ retrieved_chunks[k].metadata.subject = subject_arg
              /\ retrieved_chunks[k].metadata.language = language
        /\ NearestFirst

\* C13, amended: for any store contents, a search constrained by grade,
\* subject and language sends the store the conjunction of three equality
\* conditions (the supplied grade, the supplied subject, the literal the
\* supplied language is mapped to) and returns only chunks of the store
\* whose stored grade and subject equal the supplied values and whose
\* stored language equals the literal the supplied language is mapped to
\* ("Hindi" for any casing of hindi, "english" for any casing of english);
\* a chunk of grade 7 is never returned to a grade-6 search even when it is
\* the nearest neighbour; at most top_k chunks are returned, in ascending
\* distance order.
C13_FilteredRetrieval ==
    (pc = "searched" /\ AllSupplied) =>
        /\ where_filter =
              << [and |-> << [field |-> "grade", eq |-> grade_arg[1]],
                             [field |-> "subject", eq |-> subject_arg],
                             [field |-> "language",
                              eq |-> StoredLiteral(language)] >>] >>
        /\ \A k \in 1..Len(retrieved_chunks) :
              /\ retrieved_chunks[k] \in collection
              /\ retrieved_chunks[k].metadata.grade = grade_arg[1]
              /\ retrieved_chunks[k].metadata.subject = subject_arg
              /\ retrieved_chunks[k].metadata.language = StoredLiteral(language)
        /\ NearestFirst

\* a grade-6 search of a collection whose nearest english science chunk is
\* of grade 7 returns the grade-6 chunks behind it, top_k of them, with a tie
C13_Witness_NearestOfOtherGradeLeftOut ==
    /\ pc = "searched"
    /\ grade_arg = SomeInt(6)
    /\ subject_arg = "science"
    /\ language = "english"
    /\ adjusted_top_k = 2
    /\ \E c \in collection :
          /\ c.metadata.grade = 7
          /\ c.metadata.subject = subject_arg
          /\ c.metadata.language = "english"
          /\ \A k \in 1..Len(retrieved_chunks) :
                c.distance < retrieved_chunks[k].distance
    /\ \E c \in collection :
          /\ PassesFilter(c, Conditions(where_filter))
          /\ \A k \in 1..Len(retrieved_chunks) : retrieved_chunks[k] # c
    /\ Len(retrieved_chunks) = 2
    /\ retrieved_chunks[1].distance = retrieved_chunks[2].distance

\* the fields the call of search supplies: a grade that is not None, a
\* subject and a language that are neither None nor the empty string
SuppliedFields ==
    (IF grade_arg # NoInt THEN {"grade"} ELSE {})
    \cup (IF subject_arg \notin {None, ""} THEN {"subject"} ELSE {})
    \cup (IF language \notin {None, ""} THEN {"language"} ELSE {})

\* the search has built its filter and called the store
FilterSent ==
    pc = "searched" \/ (pc = "raised" /\ fault = "vector search")

\* C21: retrieval filter construction.  For every combination of supplied
\* and absent grade, subject and language, the filter sent to the store is
\* the conjunction of exactly one equality condition per supplied field
\* (on the supplied grade and subject) and no condition for an absent
\* field; when none of the three is supplied no filter is sent.
C21_FilterOfSuppliedFields ==
    FilterSent =>
        IF SuppliedFields = {}
        THEN where_filter = <<>>
        ELSE /\ where_filter # <<>>
             /\ LET conds == where_filter[1].and
                IN  /\ Len(conds) = Cardinality(SuppliedFields)
                    /\ \A f \in SuppliedFields :
                          \E k \in 1..Len(conds) : conds[k].field = f
                    /\ \A k \in 1..Len(conds) :
                          /\ conds[k].field \in SuppliedFields
                          /\ conds[k].field = "grade" =>
                                conds[k].eq = grade_arg[1]
                          /\ conds[k].field = "subject" =>
                                conds[k].eq = subject_arg

\* a search with no constraint sent no filter and got the nearest chunks of
\* the whole collection, of more than one grade: that is not an error
C21_Witness_NoFilterNoError ==
    /\ pc = "searched"
    /\ SuppliedFields = {}
    /\ where_filter = <<>>
    /\ fault = "none"
    /\ Len(retrieved_chunks) = adjusted_top_k
    /\ \E j, k \in 1..Len(retrieved_chunks) :
          retrieved_chunks[j].metadata.grade # retrieved_chunks[k].metadata.grade

\* C22: language constraint mapping in search.  Any casing of "hindi" is
\* mapped to the stored literal "Hindi", any casing of "english" to the
\* stored literal "english", and any other language is used as given.
C22_LanguageMapping ==
    (FilterSent /\ language \notin {None, ""}) =>
        LanguageConditions =
            { IF language \in {"hindi", "Hindi", "hINDI"} THEN "Hindi"
              ELSE IF language \in {"english", "ENGLISH"} THEN "english"
              ELSE language }

\* a search for language "hINDI" got a chunk stored as "Hindi"
C22_Witness_MixedCaseHindi ==
    /\ pc = "searched"
    /\ language = "hINDI"
    /\ LanguageConditions = {"Hindi"}
    /\ retrieved_chunks # <<>>
    /\ retrieved_chunks[1].metadata.language = "Hindi"

\* C14: the raw query is left untouched.  The text handed to prompt
\* construction and to the generation call is exactly the query of the
\* request; the canonical string canonicalization makes of it is the input
\* of the embedding step and of nothing else.
C14_RawQueryToGeneration ==
    /\ entry = "generate_answer" => query = request.query
    /\ PromptBuilt => prompt.query = request.query
    /\ (PromptBuilt /\ calls.generation >= 1) =>
          model_request.prompt.query = request.query
    /\ (calls.embedding >= 1 /\ fault # "embedding") =>
          query_embedding = Embedding(SearchQuery(request.query))

\* a Hindi query whose canonical string differs from it: the embedding is
\* of the canonical string, the prompt sent to the model has the raw query
C14_Witness_CanonicalOnlyEmbedded ==
    /\ PromptBuilt
    /\ calls.generation >= 1
    /\ request.query = HindiQuery
    /\ search_query # request.query
    /\ query_embedding = Embedding(search_query)
    /\ model_request.prompt.query = HindiQuery

-----------------------------------------------------------------------------
(* SpecCanon: the canonicalization step applied to every bounded query *)

\* most pieces a query of the model is made of
MaxQueryTokens == 3

\* the pieces: an ASCII word, a space, a Hindi word that is not mapped,
\* three pieces of mapped phrases, one of which only with another after it
QueryTokens ==
    { <<"w", "h", "a", "t">>,
      <<" ">>,
      <<"u0915", "u094D", "u092F", "u093E">>,
      <<"u092A", "u094D", "u0930", "u0915", "u093E", "u0936">>,
      <<"u0938", "u0902", "u0936", "u094D", "u0932", "u0947", "u0937", "u0923">>,
      <<"u0938", "u0942", "u0930", "u094D", "u092F", " ", "u0915", "u093E", " ">> }

RECURSIVE JoinTokens(_)
JoinTokens(ts) == IF ts = <<>> THEN <<>> ELSE Head(ts) \o JoinTokens(Tail(ts))

CanonQueries ==
    { JoinTokens(ts) : ts \in SeqsUpTo(QueryTokens, MaxQueryTokens) }

\* process_query has been called with the query, line 124
InitCanon ==
    /\ pc = "orc_canonicalize"
    /\ payload \in { [query |-> q, grade |-> 6, subject |-> "science"] :
                        q \in CanonQueries }
    /\ request = QueryRequest(payload)
    /\ response_language = OrEnglish(request.language)
    /\ adjusted_top_k = request.top_k
    /\ search_query = <<>>
    /\ query_embedding = None
    /\ where_filter = None
    /\ retrieved_chunks = <<>>
    /\ answer = <<>>
    /\ citations = <<>>
    /\ source_chunks = <<>>
    /\ responses = <<>>
    /\ calls = NoCalls
    /\ PromptIdle
    /\ AdapterIdle
    /\ ServicesUp
    /\ collection = {}
    /\ rebuild = NotRunning
    /\ parked = <<>>

NextCanon == OrcCanonicalize

SpecCanon == InitCanon /\ [][NextCanon]_vars

-----------------------------------------------------------------------------
(* Claims about query canonicalization (SpecCanon) *)

\* some mapped Hindi phrase is a substring of q
HasMappedPhrase(q) ==
    \E k \in 1..Len(hindi_to_english) : Contains(q, hindi_to_english[k][1])

\* C15: canonicalization is the identity on a query with no recognized
\* glossary term.  A query that is pure ASCII, or that is not ASCII and has
\* no mapped Hindi phrase as a substring, is its own canonical string; and
\* the step never fails: it always hands a canonical string to the
\* embedding step, with no fault.
C15_IdentityWithoutMappedPhrase ==
    /\ pc = "orc_embed" =>
          /\ fault = "none"
          /\ (IsAscii(request.query) \/ ~HasMappedPhrase(request.query)) =>
                search_query = request.query

\* a query with a Hindi word and no mapped phrase went through unchanged
C15_Witness_UnmappedHindiUnchanged ==
    /\ pc = "orc_embed"
    /\ ~IsAscii(request.query)
    /\ ~HasMappedPhrase(request.query)
    /\ Len(request.query) > 4
    /\ search_query = request.query

\* C25: canonicalization substitutes every mapped phrase, whatever the
\* overlap.  The canonical string of a non-ASCII query contains no mapped
\* Hindi phrase, and a query that is one mapped phrase becomes that phrase's
\* English lexeme, also when the phrase contains another mapped phrase.
C25_EveryMappedPhraseSubstituted ==
    (pc = "orc_embed" /\ ~IsAscii(request.query)) =>
        /\ ~HasMappedPhrase(search_query)
        /\ \A k \in 1..Len(hindi_to_english) :
              request.query = hindi_to_english[k][1] =>
                  search_query = hindi_to_english[k][2]

-----------------------------------------------------------------------------
(* Claims about concurrent queries (SpecConcurrent) *)

\* every invocation in flight: the running one and the parked ones
InFlight == {Locals} \cup {parked[k] : k \in 1..Len(parked)}

\* the response an invocation gives when it runs alone, made of its own
\* request, of what the search returned to it and of the result of its own
\* generation call
ResponseAlone(l) ==
    LET req   == QueryRequest(l.payload)
        lang  == OrEnglish(req.language)
        hindi == Lower(lang) \in {"hindi", "hi"}
        terms == IF hindi THEN english_to_hindi ELSE <<>>
    IN  [status |-> 200,
         body   |->
           [answer   |-> OrchestratorAnswer(l.result, lang, terms),
            metadata |->
              [grade            |-> req.grade,
               subject          |-> req.subject,
               language         |-> lang,
               query_language   |-> detect_query_language(req.query),
               model            |-> ModelName,
               tokens_used      |-> max_tokens,
               confidence       |-> confidence,
               chunks_retrieved |-> Len(l.retrieved_chunks)],
            citations     |-> format_citations(l.retrieved_chunks, req.grade,
                                               req.subject),
            source_chunks |-> format_source_chunks(l.retrieved_chunks)]]

\* the invocation with locals l has ended as it ends when it runs alone: its
\* search was the search of its own request in the collection, its prompt
\* was built of its own query and of the chunks it retrieved, its result is
\* that of its own model call, and its response is made of these
EndsAsAlone(l) ==
    LET req   == QueryRequest(l.payload)
        lang  == OrEnglish(req.language)
        hindi == Lower(lang) \in {"hindi", "hi"}
        terms == IF hindi THEN english_to_hindi ELSE <<>>
        top_k == IF hindi THEN Min(req.top_k, hindi_top_k) ELSE req.top_k
    IN  IF l.pc = "failed"
        THEN /\ l.fault \in {"embedding", "vector search"}
             /\ l.calls.generation = 0
             /\ l.responses = <<ErrorResponse(500, l.fault)>>
        ELSE /\ l.retrieved_chunks \in
                  SearchResults(collection,
                                WhereConditions(SomeInt(req.grade),
                                                req.subject, search_language),
                                top_k)
             /\ l.context_chunks =
                  [k \in 1..Len(l.retrieved_chunks) |->
                     [text     |-> l.retrieved_chunks[k].text,
                      metadata |-> l.retrieved_chunks[k].metadata]]
             /\ l.prompt = MistralPrompt(req.query, l.context_text, req.grade,
                                         lang, req.subject, terms)
             /\ l.model_request = GenerateRequest(l.prompt)
             /\ l.result = CASE l.fault = "none" ->
                                  SuccessResult(l.model_response, lang, terms)
                             [] OTHER -> FailureResult(l.fault)
             /\ l.responses = <<ResponseAlone(l)>>

\* C28: concurrent queries do not interfere.  No step of a query writes the
\* global handles, the LLM service, the vector store's collection or the
\* locals of another invocation in flight: the locals of a parked invocation
\* are those it had when it last ran, and it goes on from them.  So under
\* every interleaving of two concurrent queries each of them ends, at its
\* own last step, with the response it gets when it runs alone, and the
\* response it has sent stays the response of its own request.
C28_NoInterference ==
    /\ [](\A l \in InFlight :
             l.pc \in {"responded", "failed"} =>
                /\ Len(l.responses) = 1
                /\ l.responses[1].status = 200 =>
                      /\ l.responses[1].body.metadata.language =
                            OrEnglish(QueryRequest(l.payload).language)
                      /\ l.responses[1].body.metadata.grade = l.payload.grade)
    /\ [][ /\ rag_orchestrator' = rag_orchestrator
           /\ vector_store' = vector_store
           /\ llm_service' = llm_service
           /\ collection' = collection
           /\ \/ parked' = parked
              \/ \E k \in 1..Len(parked) :
                    /\ parked' = [parked EXCEPT ![k] = Locals]
                    /\ Locals' = parked[k]
           /\ (parked' = parked /\ pc' \in {"responded", "failed"}) =>
                 EndsAsAlone(Locals')
         ]_vars

\* C28 witness: two queries were in flight at once, each has run steps
\* between steps of the other, and both have been answered: the running one
\* in Hindi from three grade-6 chunks, the parked one in English from the
\* grade-7 chunk.
C28_Witness_BothAnswered ==
    /\ pc = "responded"
    /\ Len(parked) = 1
    /\ parked[1].pc = "responded"
    /\ responses[1].body.metadata.language = "hindi"
    /\ responses[1].body.metadata.chunks_retrieved = 3
    /\ parked[1].responses[1].body.metadata.language = "english"
    /\ parked[1].responses[1].body.metadata.chunks_retrieved = 1
    /\ responses[1].body.answer # parked[1].responses[1].body.answer

-----------------------------------------------------------------------------
(* SpecLifecycle: the process from its creation on: startup_event runs once,
   and the query, health and model-info operations are called one after
   another at any moment, before it, after it has returned and after it has
   raised.  responses is the response of the operation called last *)

\* no invocation of the query handler is running
NoneRunning == pc \in {"idle", "responded", "failed"}

\* api_server lines 192-232: startup_event.  The constructor of the store or
\* of the orchestrator may raise (mistral_service line 35: the model file is
\* missing); the except clause raises again, with the handles bound so far
StartupEvent ==
    /\ lifespan = "created"
    /\ \/ /\ vector_store' = "OPEAVectorStore"
          /\ rag_orchestrator' = "OPEARAGOrchestrator"
          /\ llm_service' = "OPEAMistralService"
          /\ lifespan' = "started"
       \/ /\ vector_store' = "OPEAVectorStore"
          /\ lifespan' = "startup failed"
          /\ UNCHANGED <<rag_orchestrator, llm_service>>
       \/ /\ lifespan' = "startup failed"
          /\ UNCHANGED <<vector_store, rag_orchestrator, llm_service>>
    /\ UNCHANGED <<collection, parked, rebuild>>
    /\ UNCHANGED <<pc, promptVars, adapterVars, orcVars, apiVars, calls>>

\* lines 265-271: the body health_check returns
HealthyResponse ==
    [status |-> 200,
     body   |-> [status               |-> "healthy",
                 vector_store_ready   |-> vector_store # None,
                 llm_ready            |-> rag_orchestrator # None,
                 total_documents      |-> Cardinality(collection),
                 multilingual_support |-> TRUE]]

\* health_check answering with the state of the handles instead of raising
HealthCheck_reports_unready ==
    /\ NoneRunning
    /\ responses' = <<HealthyResponse>>
    /\ pc' = "idle"
    /\ UNCHANGED <<payload, request, adjusted_top_k, citations, source_chunks>>
    /\ UNCHANGED <<promptVars, adapterVars, orcVars, serviceVars, calls>>

\* lines 258-271: health_check, called when no query is running; the locals
\* of the query before it are dead.  collection.count() is a call of the store,
\* outside any try: when it raises the framework answers 500
HealthCheck ==
    /\ NoneRunning
    /\ IF rag_orchestrator = None \/ vector_store = None
       THEN responses' =
              <<ErrorResponse(503, "RAG components not initialized")>>
       ELSE \/ responses' = <<HealthyResponse>>
            \/ responses' = <<ErrorResponse(500, "Internal Server Error")>>
    /\ pc' = "idle"
    /\ UNCHANGED <<payload, request, adjusted_top_k, citations, source_chunks>>
    /\ UNCHANGED <<promptVars, adapterVars, orcVars, serviceVars, calls>>

\* MistralConfig.n_ctx and n_gpu_layers, mistral_service lines 15 and 17
n_ctx == 4096

n_gpu_layers == 0

\* mistral_service lines 256-267 and api_server lines 373-382; size_gb, the
\* float 4.1, is in tenths
ModelInfoResponse ==
    [status |-> 200,
     body   |-> [model               |-> ModelName,
                 quantization        |-> "Q4_K_M (4-bit)",
                 size_gb             |-> 41,
                 context_window      |-> n_ctx,
                 gpu_enabled         |-> n_gpu_layers > 0,
                 gpu_type            |-> IF n_gpu_layers > 0
                                         THEN "Metal (M2 Mac)" ELSE "CPU",
                 n_gpu_layers        |-> IF n_gpu_layers > 0
                                         THEN n_gpu_layers ELSE 0,
                 languages_supported |-> <<"English", "Hindi">>]]

\* lines 364-386: get_model_info
GetModelInfo ==
    /\ NoneRunning
    /\ responses' =
         << IF rag_orchestrator = None \/ llm_service = None
            THEN ErrorResponse(503, "LLM service not initialized")
            ELSE ModelInfoResponse >>
    /\ pc' = "idle"
    /\ UNCHANGED <<payload, request, adjusted_top_k, citations, source_chunks>>
    /\ UNCHANGED <<promptVars, adapterVars, orcVars, serviceVars, calls>>

\* lines 272-273: the query handler is called with a new request
NewQuery ==
    /\ NoneRunning
    /\ \E body \in ConcurrentPayloads :
          /\ pc' = NewLocals(body).pc
          /\ language' = NewLocals(body).language
          /\ context_chunks' = NewLocals(body).context_chunks
          /\ i' = NewLocals(body).i
          /\ context_text' = NewLocals(body).context_text
          /\ total_chars' = NewLocals(body).total_chars
          /\ entry' = NewLocals(body).entry
          /\ query' = NewLocals(body).query
          /\ grade_arg' = NewLocals(body).grade_arg
          /\ subject_arg' = NewLocals(body).subject_arg
          /\ hindi_terms' = NewLocals(body).hindi_terms
          /\ prompt' = NewLocals(body).prompt
          /\ model_request' = NewLocals(body).model_request
          /\ model_response' = NewLocals(body).model_response
          /\ result' = NewLocals(body).result
          /\ fault' = NewLocals(body).fault
          /\ response_language' = NewLocals(body).response_language
          /\ search_query' = NewLocals(body).search_query
          /\ query_embedding' = NewLocals(body).query_embedding
          /\ where_filter' = NewLocals(body).where_filter
          /\ retrieved_chunks' = NewLocals(body).retrieved_chunks
          /\ answer' = NewLocals(body).answer
          /\ payload' = NewLocals(body).payload
          /\ request' = NewLocals(body).request
          /\ adjusted_top_k' = NewLocals(body).adjusted_top_k
          /\ citations' = NewLocals(body).citations
          /\ source_chunks' = NewLocals(body).source_chunks
          /\ responses' = NewLocals(body).responses
          /\ calls' = NewLocals(body).calls
    /\ UNCHANGED serviceVars

\* the module is loaded: lines 110-112
InitLifecycle ==
    /\ pc = "idle"
    /\ lifespan = "created"
    /\ vector_store = None
    /\ rag_orchestrator = None
    /\ llm_service = None
    /\ collection = SearchPool
    /\ rebuild = NotRunning
    /\ parked = <<>>
    /\ ApiIdle
    /\ PromptIdle
    /\ AdapterIdle
    /\ OrchestratorIdle

NextLifecycle ==
    \/ StartupEvent
    \/ HealthCheck
    \/ GetModelInfo
    \/ NewQuery
    \/ ApiEntry
    \/ OrcCanonicalize
    \/ OrcEmbed
    \/ OrcSearch
    \/ OrcGenerate
    \/ BuildStep
    \/ BuildExhausted
    \/ BuildPrompt
    \/ LlmModelCall
    \/ LlmReadResult
    \/ OrcAfterGenerate
    \/ ApiFormatCitations
    \/ ApiFormatSourceChunks
    \/ ApiRespond
    \/ ApiError

SpecLifecycle == InitLifecycle /\ [][NextLifecycle]_vars

-----------------------------------------------------------------------------
(* Claims about the life of the process (SpecLifecycle) *)

\* a global handle is not bound
HandlesDown == rag_orchestrator = None \/ vector_store = None

\* C29: service lifecycle.  The global handles of the orchestrator and of
\* the vector store are assigned by startup_event only, once, and never
\* while a query is being served; an operation (query, health, model-info)
\* answered while a handle is not bound, before startup or after a startup
\* that raised, gets a 503 error, and no embedding, vector search or
\* generation is invoked as long as a handle is not bound.
C29_Lifecycle ==
    /\ [](HandlesDown => calls = NoCalls)
    /\ [][ /\ ( \/ rag_orchestrator' # rag_orchestrator
                \/ vector_store' # vector_store
                \/ llm_service' # llm_service ) =>
                 /\ lifespan = "created"
                 /\ lifespan' # "created"
                 /\ pc \in {"idle", "api_entry", "responded", "failed"}
           /\ lifespan # "created" => lifespan' = lifespan
           /\ (HandlesDown /\ responses' # <<>>) =>
                 /\ Len(responses') = 1
                 /\ responses'[1].status = 503
                 /\ calls' = NoCalls
                 /\ NoneRunning'
         ]_vars

\* C29 witness: the construction of the orchestrator raised at startup, the
\* store's handle is bound and the orchestrator's is not; a query called
\* after that was answered 503 with no collaborator invoked.
C29_Witness_QueryRefusedAfterFailedStartup ==
    /\ lifespan = "startup failed"
    /\ vector_store # None
    /\ rag_orchestrator = None
    /\ pc = "failed"
    /\ payload \in ConcurrentPayloads
    /\ responses = <<ErrorResponse(503, "RAG orchestrator not initialized")>>
    /\ calls = NoCalls

-----------------------------------------------------------------------------
(* SpecSanitize: the two sanitizing passes applied to every bounded raw text:
   the adapter's (mistral_service lines 188-205), then the orchestrator's
   (rag_orchestrator lines 225-248) *)

\* most pieces a raw text of the model is made of
MaxRawTokens == 3

\* deepest nesting of citation brackets in a raw text of the model
MaxNesting == 3

\* the pieces: the opening and the end of a source citation, a
\* parenthetical in Latin script, glossary terms, and a glossary term with
\* a parenthetical inside it
RawTokens ==
    { <<"[", "S", "o", "u", "r", "c", "e", " ">>,
      <<"1", "]", " ">>,
      <<"(", "N", "C", "E", "R", "T", ")", " ">>,
      <<"i", "s", " ", "a", " ">>,
      <<"i", "s", " ", "(", "a", "l", "s", "o", ")", " ", "a", " ">>,
      <<"n", "a", "t", "u", "r", "a", "l", " ", "n", "u", "m", "b", "e", "r",
        "s", " ">> }

\* k citations, each of them opened inside the one before
RECURSIVE NestedCitations(_)
NestedCitations(k) ==
    IF k = 0 THEN <<>>
    ELSE <<"[", "S", "o", "u", "r", "c", "e", " ">> \o NestedCitations(k - 1)
           \o <<"1", "]", " ">>

\* a glossary a caller of generate_answer passes instead of _get_hindi_terms
ScenarioGlossary ==
    << <<<<"n", "a", "t", "u", "r", "a", "l", " ", "n", "u", "m", "b", "e", "r", "s">>,
         <<"u092A", "u094D", "u0930", "u093E", "u0915", "u0943", "u0924", " ",
           "u0938", "u0902", "u0916", "u094D", "u092F", "u093E", "u090F", "u0901">>>>,
       <<<<"n", "u", "m", "b", "e", "r", "s">>,
         <<"u0938", "u0902", "u0916", "u094D", "u092F", "u093E", "u090F", "u0901">>>> >>

\* raw texts of one word: a word that has the glossary term "and" inside it,
\* a glossary term in mixed and in upper casing, and a glossary term that
\* has two shorter glossary terms inside it
WordTexts ==
    { <<"s", "a", "n", "d">>, <<"s", "U", "n">>,
      <<"S", "U", "N", "L", "I", "G", "H", "T">>,
      <<"s", "u", "n", "l", "i", "g", "h", "t">> }

SanitizerTexts ==
    RawTexts
    \cup WordTexts
    \cup { NestedCitations(k) : k \in 1..MaxNesting }
    \cup { JoinTokens(ts) : ts \in SeqsUpTo(RawTokens, MaxRawTokens) }

\* self.model has returned its completion to generate_answer, line 186
InitSanitize ==
    /\ pc = "llm_read"
    /\ entry = "generate_answer"
    /\ query = AsciiQuery
    /\ grade_arg = 6
    /\ subject_arg = "science"
    /\ language \in {"english", "hindi"}
    /\ hindi_terms \in IF language = "hindi"
                        THEN {<<>>, english_to_hindi, ScenarioGlossary}
                        ELSE {<<>>}
    /\ context_chunks = <<>>
    /\ i = 0
    /\ context_text = <<>>
    /\ total_chars = 0
    /\ prompt = MistralPrompt(query, context_text, grade_arg, language,
                              subject_arg, hindi_terms)
    /\ model_request = GenerateRequest(prompt)
    /\ model_response \in { Completion(t, Len(t)) : t \in SanitizerTexts }
    /\ result = None
    /\ fault = "none"
    /\ calls = [NoCalls EXCEPT !.generation = 1]
    /\ payload = None
    /\ request = None
    /\ adjusted_top_k = 0
    /\ citations = <<>>
    /\ source_chunks = <<>>
    /\ responses = <<>>
    /\ OrchestratorIdle
    /\ ServicesUp
    /\ collection = {}
    /\ rebuild = NotRunning
    /\ parked = <<>>

NextSanitize ==
    \/ LlmReadResult
    \/ OrcAfterGenerate

SpecSanitize == InitSanitize /\ [][NextSanitize]_vars

-----------------------------------------------------------------------------
(* Claims about the sanitizer (SpecSanitize) *)

\* the raw generated text of the call
RawText == model_response.choices[1].text

\* both passes are done: the orchestrator has the sanitized answer
Sanitized == pc = "api_format_citations" /\ result.success

\* s has a bracketed citation fragment ([Source n ...], with the Hindi
\* words for source too) or a bracketed page-number fragment ([... Page n ...])
HasCitationFragment(s) ==
    \E p \in 1..Len(s) :
        MatchEnd("source", s, p) # 0 \/ MatchEnd("page", s, p) # 0

\* C16: sanitization removes citation markers.  For every raw generated
\* text and either response language, the sanitized answer has no bracketed
\* citation fragment and no bracketed page-number fragment.
C16_NoCitationFragmentLeft ==
    Sanitized => ~HasCitationFragment(answer)

\* C17: glossary substitution removes the leaked term.  With the response
\* language hindi and a glossary that has the English term t, whenever the
\* raw generated text contains t verbatim, the sanitized answer does not
\* contain t.
C17_LeakedTermRemoved ==
    (Sanitized /\ language = "hindi") =>
        \A k \in 1..Len(hindi_terms) :
            Contains(RawText, hindi_terms[k][1]) =>
                ~Contains(answer, hindi_terms[k][1])

\* C18: without a glossary leakage is only flagged.  With the response
\* language hindi and no glossary, however many runs of Latin letters the
\* text has, each pass only strips citations and collapses white space: the
\* adapter returns the stripped text of the raw text, the sanitized answer is
\* the stripped text of that, with no term substituted and no parenthetical
\* removed; and no pass raises.
C18_NoGlossaryOnlyStrips ==
    (language = "hindi" /\ hindi_terms = <<>>) =>
        /\ fault = "none"
        /\ pc \in {"llm_returned", "api_format_citations"} =>
              /\ result.success
              /\ result.answer = CleanCitations(RawText)
        /\ pc = "api_format_citations" =>
              answer = CleanCitations(CleanCitations(RawText))

\* a Hindi answer over the leakage threshold, with a Latin parenthetical,
\* sanitized without a glossary: the Latin runs and the parenthetical stay
C18_Witness_LeakageLeftInPlace ==
    /\ pc = "api_format_citations"
    /\ language = "hindi"
    /\ hindi_terms = <<>>
    /\ RawText = RawLeakyAnswer
    /\ CountLatinRuns(answer, 1) > leakage_threshold
    /\ \E p \in 1..Len(answer) : MatchEnd("paren", answer, p) # 0
    /\ ~HasCitationFragment(answer)

-----------------------------------------------------------------------------
(* Claims about how the sanitizer substitutes (SpecSanitize) *)

\* the text after the citation passes of the adapter and of the orchestrator
StrippedOnly == CleanCitations(CleanCitations(RawText))

\* C23: leakage threshold gating.  For a hindi response with a glossary, an
\* answer whose number of runs of 4 or more basic-Latin letters does not
\* exceed 5 leaves the sanitizer with no glossary substitution and no
\* parenthetical removal applied: the sanitized answer is the raw text with
\* its citations stripped and its white space collapsed, nothing more.
C23_ThresholdGatesSubstitution ==
    ( /\ Sanitized
      /\ language = "hindi"
      /\ hindi_terms # <<>>
      /\ CountLatinRuns(CleanCitations(RawText), 1) <= leakage_threshold ) =>
        answer = StrippedOnly

\* the glossary term eng occurs in s as a whole word, in some casing
HasWholeWord(s, eng) == \E p \in 1..Len(s) : WholeWordAt(s, p, eng)

\* C24: glossary substitution is whole-word, case-insensitive and
\* longest-term-first.  For a hindi response with a glossary: a raw text in
\* which no glossary term occurs as a whole word has nothing substituted
\* (so "and" inside "sand" stays), and a raw text that is one glossary term,
\* in any letter casing, becomes that term's Hindi equivalent (so "sunlight"
\* becomes the equivalent of "sunlight", not that of "sun" or of "light").
C24_WholeWordAnyCaseLongestFirst ==
    (Sanitized /\ language = "hindi" /\ hindi_terms # <<>>) =>
        LET cleaned == CleanCitations(RawText)
        IN  /\ (\A k \in 1..Len(hindi_terms) :
                    ~HasWholeWord(cleaned, hindi_terms[k][1])) =>
                  answer = CollapseWhitespace(
                               RemoveMatches("paren", StrippedOnly))
            /\ \A k \in 1..Len(hindi_terms) :
                  LowerText(cleaned) = LowerText(hindi_terms[k][1]) =>
                      answer = hindi_terms[k][2]

-----------------------------------------------------------------------------
(* Claims about the calls of the model (SpecAdapter) *)

\* the stop sequence s is among those of the call of self.model
PassesStop(s) ==
    \E k \in 1..Len(model_request.stop) : model_request.stop[k] = s

\* C19: stop sequences.  Every call of the generation collaborator, from
\* generate_answer and from stream_answer alike, passes stop sequences that
\* include "[INST]" and the localized section-header strings ("Student:",
\* "Context:" and their Hindi counterparts).
C19_StopSequencesPassed ==
    calls.generation >= 1 =>
        /\ PassesStop(<<"[", "I", "N", "S", "T", "]">>)
        /\ PassesStop(<<"S", "t", "u", "d", "e", "n", "t", ":">>)
        /\ PassesStop(<<"C", "o", "n", "t", "e", "x", "t", ":">>)
        /\ PassesStop(<<"u0938", "u0902", "u0926", "u0930", "u094D", "u092D",
                        ":">>)
        /\ PassesStop(HindiQuestionHeader)

-----------------------------------------------------------------------------
(* Claims about the request surface (Spec) *)

\* the handler has computed the top_k of the retrieval
TopKAdjusted == pc # "api_entry" /\ rag_orchestrator # None

\* C20: top_k default and Hindi cap.  A request that leaves top_k out has
\* top_k = 3.  When the response language is hindi the top_k passed to
\* retrieval is min(requested top_k, 3), so at most 3 chunks are retrieved;
\* when it is the default language the requested top_k is passed unchanged.
\* Retrieval returns no more chunks than the top_k it was passed.
C20_TopKDefaultAndCap ==
    /\ "top_k" \notin DOMAIN payload => request.top_k = 3
    /\ "top_k" \in DOMAIN payload => request.top_k = payload.top_k
    /\ TopKAdjusted =>
          /\ RequestedLanguage = "hindi" =>
                /\ adjusted_top_k =
                     IF request.top_k <= 3 THEN request.top_k ELSE 3
                /\ Len(retrieved_chunks) <= 3
          /\ RequestedLanguage = "english" => adjusted_top_k = request.top_k
          /\ Len(retrieved_chunks) <= adjusted_top_k

\* a Hindi request for more than 3 chunks got 3 of the chunks its filter
\* admits
C20_Witness_HindiRequestCapped ==
    /\ pc = "responded"
    /\ RequestedLanguage = "hindi"
    /\ "top_k" \in DOMAIN payload
    /\ payload.top_k > 3
    /\ adjusted_top_k = 3
    /\ Len(retrieved_chunks) = 3
    /\ Cardinality({c \in collection :
                       PassesFilter(c, Conditions(where_filter))}) > 3

=============================================================================
